---------------------------- MODULE Spec2Model ----------------------------
(***************************************************************************)
(* Model of the policy and reconciliation core of the bpro wallet library  *)
(* (pandora-prime/bpro): the onchain ledger model of src/src/onchain.rs    *)
(* and the versioned extension state of src/src/rgb.rs.                    *)
(*                                                                         *)
(* The library is a collection of value types and pure operations. Each    *)
(* component gets a specification of its own: its Init draws the inputs    *)
(* from bounded sets and its actions apply the operations of the source,   *)
(* leaving what they returned in res.                                      *)
(*                                                                         *)
(*   SpecStatus    OnchainStatus: conversions and derived ordering         *)
(*   SpecTxid      OnchainTxid: cmp and partial_cmp                        *)
(*   SpecEntry     HistoryEntry: values, balance, address summaries        *)
(*   SpecIdentity  HistoryEntry: equality, hash and ordering               *)
(*   SpecMerge     AddressSummary::merge                                   *)
(*   SpecRgb       RgbProxy: strict encoding and decoding                  *)
(*                                                                         *)
(* TLC's integers are 32 bits wide: u32 heights and u64 amounts are drawn  *)
(* from ranges in which the arithmetic of the source is exact.             *)
(***************************************************************************)
EXTENDS Integers, Sequences, FiniteSets, TLC

VARIABLES
    height,     \* a raw height as delivered by the chain-data source (u32 / i32)
    st,         \* an OnchainStatus
    st2,        \* a second OnchainStatus, the right-hand side of comparisons
    via,        \* how st was produced: "any", "from_u32" or "from_i32"
    a, b, c,    \* three OnchainTxid records
    e,          \* a HistoryEntry
    f,          \* a second HistoryEntry: e as observed again later
    base,       \* an AddressSummary before any merge
    acc,        \* the AddressSummary that the merges accumulate into
    merged,     \* the summaries merged into acc so far, in call order
    proxy,      \* an RgbProxy
    buf,        \* the bytes of the stored proxy and what wrote them
    now,        \* the clock, Utc::now(), at the call of a template constructor
    duration,   \* a TimelockDuration
    build,      \* whether the build checks integer overflow (debug) or wraps
    xpub,       \* a bare extended public key given to Signer::with_xpub
    schema,     \* the derivation scheme (Bip43) given to the Signer Registry
    network,    \* the PublicNetwork given to the Signer Registry
    discovered, \* what HWIClient::enumerate() returned
    pc,         \* the position of HardwareList::enumerate
    devices,    \* the registry that enumerate fills, by master fingerprint
    log,        \* the error log that enumerate fills
    probes,     \* the number of devices whose xpub was retrieved so far
    res         \* what the last operation returned

ledgerVars == <<height, st, st2, via, a, b, c, e, f, base, acc, merged>>

rgbVars == <<proxy, buf>>

policyVars == <<now, duration, build>>

signerVars == <<xpub, schema, network>>

hwVars == <<discovered, pc, devices, log, probes>>

vars == <<ledgerVars, rgbVars, policyVars, signerVars, hwVars, res>>

(***************************************************************************)
(* Bounds of the model.                                                    *)
(***************************************************************************)
MaxHeight == 3
MaxTxid == 2
MaxOutputs == 2
MaxMerges == 3
MaxStock == 2

NoRes == [op |-> "none"]

(***************************************************************************)
(* The values of the variables of a component that a specification of      *)
(* another component leaves alone.                                         *)
(***************************************************************************)
IdlePolicy ==
    /\ now = [year |-> 2023, month |-> 1, day |-> 1, secs |-> 0]
    /\ duration = [unit |-> "Days", count |-> 0]
    /\ build = "release"

IdleSigner ==
    /\ xpub = [depth |-> 0, parent_fingerprint |-> 0,
               child_number |-> [hardened |-> FALSE, index |-> 0], key |-> 1]
    /\ schema = [account_depth |-> <<>>, coin_type_depth |-> <<>>]
    /\ network = "Mainnet"

IdleHw ==
    /\ discovered = [ok |-> TRUE, list |-> <<>>]
    /\ pc = 0
    /\ devices = [k \in {} |-> 0]
    /\ log = <<>>
    /\ probes = 0

(***************************************************************************)
(* std::cmp::Ordering and the comparison of two integers.                  *)
(***************************************************************************)
Ordering == {"Less", "Equal", "Greater"}

IntCmp(x, y) == IF x < y THEN "Less" ELSE IF x > y THEN "Greater" ELSE "Equal"

Reverse(o) == CASE o = "Less" -> "Greater" [] o = "Greater" -> "Less" [] OTHER -> "Equal"

(***************************************************************************)
(* OnchainStatus: enum { Blockchain(u32), Mempool }, in this order.        *)
(***************************************************************************)
Mempool == [tag |-> "Mempool", height |-> 0]

Blockchain(h) == [tag |-> "Blockchain", height |-> h]

OnchainStatusSet == {Mempool} \cup {Blockchain(h) : h \in 0..MaxHeight}

\* The position of a variant in the enum declaration, which #[derive(Ord)]
\* compares first.
Discriminant(s) == IF s.tag = "Blockchain" THEN 0 ELSE 1

\* A comparison that takes Mempool for height 0.
OnchainStatus_cmp_by_height(s, t) ==
    IntCmp(IF s.tag = "Blockchain" THEN s.height ELSE 0,
           IF t.tag = "Blockchain" THEN t.height ELSE 0)

\* #[derive(PartialOrd, Ord)]: variants by declaration order, then the payload.
OnchainStatus_cmp(s, t) ==
    IF Discriminant(s) # Discriminant(t)
    THEN IntCmp(Discriminant(s), Discriminant(t))
    ELSE IF s.tag = "Blockchain" THEN IntCmp(s.height, t.height) ELSE "Equal"

\* from_u32 that keeps height 0 as a confirmed height.
OnchainStatus_from_u32_keep0(index) == Blockchain(index)

OnchainStatus_from_u32(index) ==
    IF index = 0 THEN Mempool ELSE Blockchain(index)

OnchainStatus_from_i32(index) ==
    IF index <= 0 THEN Mempool ELSE Blockchain(index)

OnchainStatus_into_u32(s) ==
    IF s.tag = "Blockchain" THEN s.height ELSE 0

OnchainStatus_into_i32(s) ==
    IF s.tag = "Blockchain" THEN s.height ELSE 0

(***************************************************************************)
(* OnchainTxid { txid, status, date_time }.  A txid is a 32-byte hash,     *)
(* compared bytewise; the model numbers the hashes in that order.          *)
(* date_time is None (0) or Some(t).                                       *)
(***************************************************************************)
TxidSet == 1..MaxTxid

DateTimeOpt == {0, 1}

OnchainTxidSet == [txid : TxidSet, status : OnchainStatusSet, date_time : DateTimeOpt]

IdleTxid == [txid |-> 1, status |-> Mempool, date_time |-> 0]

\* A comparison with the keys swapped: txid first, status as the tie-break.
OnchainTxid_cmp_txid_first(x, y) ==
    IF x.txid # y.txid THEN IntCmp(x.txid, y.txid)
    ELSE OnchainStatus_cmp(x.status, y.status)

OnchainTxid_cmp(x, y) ==
    LET ordering == OnchainStatus_cmp(x.status, y.status)
    IN  IF ordering = "Equal" THEN IntCmp(x.txid, y.txid) ELSE ordering

\* Option<Ordering>: "None" or one of Ordering.
OnchainTxid_partial_cmp(x, y) ==
    IF x.txid = y.txid /\ x.status # y.status
    THEN "None"
    ELSE OnchainTxid_cmp(x, y)

(***************************************************************************)
(* Helpers: BTreeMap<u32, V> is a function on a finite set of keys, which  *)
(* iterates in ascending key order.                                        *)
(***************************************************************************)
EmptyMap == [k \in {} |-> 0]

Min(S) == CHOOSE x \in S : \A y \in S : x <= y

RECURSIVE KeysAscending(_)
KeysAscending(S) ==
    IF S = {} THEN <<>> ELSE <<Min(S)>> \o KeysAscending(S \ {Min(S)})

\* Iterator::sum over a sequence of numbers.
RECURSIVE SeqSum(_)
SeqSum(s) == IF s = <<>> THEN 0 ELSE Head(s) + SeqSum(Tail(s))

\* All sequences over S of length at most n.
SeqsUpTo(S, n) == UNION {[1..k -> S] : k \in 0..n}

\* All maps with keys among K and values in V.
MapsOver(K, V) == UNION {[D -> V] : D \in SUBSET K}

(***************************************************************************)
(* AddressSource, AddressValue, AddressSummary.                            *)
(***************************************************************************)
AddressSourceSet ==
    {[address |-> 1, change |-> 0, index |-> 0],
     [address |-> 2, change |-> 1, index |-> 0]}

(***************************************************************************)
(* AddressSummary { addr_src, balance, volume, tx_count }.                 *)
(***************************************************************************)
\* merge that adds up the transaction counts of both summaries.
AddressSummary_merge_counts(self, other) ==
    [self EXCEPT !.balance = @ + other.balance,
                 !.volume = @ + other.volume,
                 !.tx_count = @ + other.tx_count]

AddressSummary_merge(self, other) ==
    [self EXCEPT !.balance = @ + other.balance,
                 !.volume = @ + other.volume,
                 !.tx_count = @ + 1]

IdleSummary ==
    [addr_src |-> [address |-> 1, change |-> 0, index |-> 0],
     balance |-> 0, volume |-> 0, tx_count |-> 0]

IdleMerge == base = IdleSummary /\ acc = IdleSummary /\ merged = <<>>

(***************************************************************************)
(* bitcoin::Transaction: its outputs (amounts in satoshi), the rest of the *)
(* data its txid commits to (inp) and its witness data, which the txid     *)
(* does not commit to.  Transaction::txid() is a collision-free hash of    *)
(* the committed data: the model numbers the committed data injectively.   *)
(***************************************************************************)
Amounts == <<0, 300, 700>>

AmountSet == {Amounts[i] : i \in 1..Len(Amounts)}

AmountIndex(v) == CHOOSE i \in 1..Len(Amounts) : Amounts[i] = v

RECURSIVE OutputsCode(_)
OutputsCode(out) ==
    IF out = <<>> THEN 0
    ELSE AmountIndex(Head(out)) + (Len(Amounts) + 1) * OutputsCode(Tail(out))

Transaction_txid(tx) == tx.inp + (MaxTxid + 1) * OutputsCode(tx.output)

\* Vec::get(vout): None (here <<>>) past the end; vout counts from 0.
Output_get(tx, vout) ==
    IF vout < Len(tx.output) THEN <<tx.output[vout + 1]>> ELSE <<>>

(***************************************************************************)
(* HistoryEntry { onchain, tx, credit, debit, payers, beneficiaries, fee,  *)
(* comment }.  fee and comment are None (0) or Some.                       *)
(***************************************************************************)
\* Equality of all fields, as #[derive(PartialEq)] would give it.
HistoryEntry_eq_derived(x, y) == x = y

\* impl PartialEq for HistoryEntry
HistoryEntry_eq(x, y) == Transaction_txid(x.tx) = Transaction_txid(y.tx)

\* impl Hash for HistoryEntry: what is written to the hasher.
HistoryEntry_hash(x) == <<Transaction_txid(x.tx)>>

\* impl Ord for HistoryEntry
HistoryEntry_cmp(x, y) == OnchainTxid_cmp(x.onchain, y.onchain)

\* impl PartialOrd for HistoryEntry
HistoryEntry_partial_cmp(x, y) == OnchainTxid_partial_cmp(x.onchain, y.onchain)

HistoryEntry_value_credited(x) ==
    LET keys == KeysAscending(DOMAIN x.credit)
    IN  SeqSum([i \in 1..Len(keys) |-> x.credit[keys[i]].value])

HistoryEntry_value_debited(x) ==
    LET keys == KeysAscending(DOMAIN x.debit)
        got == [i \in 1..Len(keys) |-> Output_get(x.tx, keys[i])]
    IN  SeqSum([i \in 1..Len(keys) |-> SeqSum(got[i])])

\* balance with the operands swapped: credited minus debited.
HistoryEntry_balance_swapped(x) ==
    HistoryEntry_value_credited(x) - HistoryEntry_value_debited(x)

HistoryEntry_balance(x) ==
    HistoryEntry_value_debited(x) - HistoryEntry_value_credited(x)

\* address_summaries that reports the credited value as the volume.
HistoryEntry_address_summaries_credit_volume(x) ==
    LET ck == KeysAscending(DOMAIN x.credit)
        dk == KeysAscending(DOMAIN x.debit)
    IN  [i \in 1..Len(ck) |->
            [addr_src |-> x.credit[ck[i]].addr_src, balance |-> 0,
             volume |-> x.credit[ck[i]].value, tx_count |-> 1]]
        \o
        [i \in 1..Len(dk) |->
            [addr_src |-> x.debit[dk[i]], balance |-> 0,
             volume |-> SeqSum(Output_get(x.tx, dk[i])), tx_count |-> 1]]

HistoryEntry_address_summaries(x) ==
    LET ck == KeysAscending(DOMAIN x.credit)
        dk == KeysAscending(DOMAIN x.debit)
    IN  [i \in 1..Len(ck) |->
            [addr_src |-> x.credit[ck[i]].addr_src, balance |-> 0,
             volume |-> 0, tx_count |-> 1]]
        \o
        [i \in 1..Len(dk) |->
            [addr_src |-> x.debit[dk[i]], balance |-> 0,
             volume |-> SeqSum(Output_get(x.tx, dk[i])), tx_count |-> 1]]

AddressValueSet == [addr_src : AddressSourceSet, value : AmountSet \ {0}]

\* An entry as the wallet builds it: onchain.txid is the txid of tx.
MkEntry(tx, status, credit, debit, fee, comment) ==
    [onchain |-> [txid |-> Transaction_txid(tx), status |-> status, date_time |-> 0],
     tx |-> tx, credit |-> credit, debit |-> debit,
     payers |-> EmptyMap, beneficiaries |-> EmptyMap,
     fee |-> fee, comment |-> comment]

IdleEntry == MkEntry([inp |-> 1, output |-> <<>>, wit |-> 0], Mempool, EmptyMap, EmptyMap, 0, 0)

IdleEntries == e = IdleEntry /\ f = IdleEntry

(***************************************************************************)
(* Strict encoding of the parts of an RgbProxy.  A buffer is a sequence of *)
(* bytes.  Integers are little-endian; a collection is its u16 length and  *)
(* then its items in iteration order; an enum is the u8 position of its    *)
(* variant and then the payload; an Option is a u8 flag and then the value.*)
(***************************************************************************)
EncU16(n) == <<n % 256, n \div 256>>

EncU32(n) == <<n % 256, (n \div 256) % 256, (n \div 65536) % 256, n \div 16777216>>

EncI64(n) == EncU32(n) \o <<0, 0, 0, 0>>

\* A 32-byte hash; the model's hash number is its first byte.
EncTxid(t) == [i \in 1..32 |-> IF i = 1 THEN t ELSE 0]

EncStatus(s) == IF s.tag = "Blockchain" THEN <<0>> \o EncU32(s.height) ELSE <<1>>

EncDateTimeOpt(d) == IF d = 0 THEN <<0>> ELSE <<1>> \o EncI64(d)

EncOnchainTxid(x) == EncTxid(x.txid) \o EncStatus(x.status) \o EncDateTimeOpt(x.date_time)

EncOutPoint(o) == EncTxid(o.txid) \o EncU32(o.vout)

\* #[derive(Ord)] for OutPoint { txid, vout }.
OutPoint_cmp(x, y) ==
    IF x.txid # y.txid THEN IntCmp(x.txid, y.txid) ELSE IntCmp(x.vout, y.vout)

\* The iteration order of a BTreeSet<OnchainTxid>: ascending by cmp.
WitnessOrder(S) ==
    CHOOSE s \in [1..Cardinality(S) -> S] :
        \A i, j \in 1..Cardinality(S) : i < j => OnchainTxid_cmp(s[i], s[j]) = "Less"

\* The iteration order of a BTreeSet<OutPoint>: ascending by cmp.
SealOrder(S) ==
    CHOOSE s \in [1..Cardinality(S) -> S] :
        \A i, j \in 1..Cardinality(S) : i < j => OutPoint_cmp(s[i], s[j]) = "Less"

RECURSIVE Concat(_)
Concat(ss) == IF ss = <<>> THEN <<>> ELSE Head(ss) \o Concat(Tail(ss))

EncWitnessTxes(S) ==
    LET items == WitnessOrder(S)
    IN  EncU16(Len(items)) \o Concat([i \in 1..Len(items) |-> EncOnchainTxid(items[i])])

EncOwnedSeals(S) ==
    LET items == SealOrder(S)
    IN  EncU16(Len(items)) \o Concat([i \in 1..Len(items) |-> EncOutPoint(items[i])])

\* The stock of rgbstd, reduced to a list of one-byte items.
EncStock(stock) == EncU16(Len(stock)) \o stock

(***************************************************************************)
(* Strict decoding: a decoder takes a buffer and returns the value and the *)
(* rest of the buffer, or an error.                                        *)
(***************************************************************************)
Ok(v, rest) == [ok |-> TRUE, val |-> v, rest |-> rest]

Err(err) == [ok |-> FALSE, err |-> err]

IoError == [kind |-> "Io", what |-> "UnexpectedEof"]

Drop(s, n) == SubSeq(s, n + 1, Len(s))

\* The little-endian value of the first n bytes of s.
RECURSIVE LeValue(_, _)
LeValue(s, n) == IF n = 0 THEN 0 ELSE s[1] + 256 * LeValue(Tail(s), n - 1)

DecInt(s, n) == IF Len(s) < n THEN Err(IoError) ELSE Ok(LeValue(s, n), Drop(s, n))

DecTxid(s) == IF Len(s) < 32 THEN Err(IoError) ELSE Ok(s[1], Drop(s, 32))

DecStatus(s) ==
    IF Len(s) < 1 THEN Err(IoError)
    ELSE IF s[1] = 0
         THEN LET h == DecInt(Drop(s, 1), 4)
              IN  IF h.ok THEN Ok(Blockchain(h.val), h.rest) ELSE h
         ELSE IF s[1] = 1 THEN Ok(Mempool, Drop(s, 1))
         ELSE Err([kind |-> "EnumValueNotKnown", what |-> s[1]])

DecDateTimeOpt(s) ==
    IF Len(s) < 1 THEN Err(IoError)
    ELSE IF s[1] = 0 THEN Ok(0, Drop(s, 1))
    ELSE IF s[1] = 1 THEN DecInt(Drop(s, 1), 8)
    ELSE Err([kind |-> "WrongOptionalEncoding", what |-> s[1]])

DecOnchainTxid(s) ==
    LET t == DecTxid(s) IN
    IF ~t.ok THEN t ELSE
    LET u == DecStatus(t.rest) IN
    IF ~u.ok THEN u ELSE
    LET d == DecDateTimeOpt(u.rest) IN
    IF ~d.ok THEN d
    ELSE Ok([txid |-> t.val, status |-> u.val, date_time |-> d.val], d.rest)

DecOutPoint(s) ==
    LET t == DecTxid(s) IN
    IF ~t.ok THEN t ELSE
    LET v == DecInt(t.rest, 4) IN
    IF ~v.ok THEN v ELSE Ok([txid |-> t.val, vout |-> v.val], v.rest)

\* The loop of BTreeSet::strict_decode: n items, a repeated one is an error.
RECURSIVE DecWitnessItems(_, _, _)
DecWitnessItems(s, n, got) ==
    IF n = 0 THEN Ok(got, s) ELSE
    LET x == DecOnchainTxid(s) IN
    IF ~x.ok THEN x
    ELSE IF \E y \in got : OnchainTxid_cmp(y, x.val) = "Equal"
         THEN Err([kind |-> "RepeatedValue", what |-> x.val])
         ELSE DecWitnessItems(x.rest, n - 1, got \cup {x.val})

DecWitnessTxes(s) ==
    LET n == DecInt(s, 2) IN IF ~n.ok THEN n ELSE DecWitnessItems(n.rest, n.val, {})

RECURSIVE DecSealItems(_, _, _)
DecSealItems(s, n, got) ==
    IF n = 0 THEN Ok(got, s) ELSE
    LET x == DecOutPoint(s) IN
    IF ~x.ok THEN x
    ELSE IF x.val \in got
         THEN Err([kind |-> "RepeatedValue", what |-> x.val])
         ELSE DecSealItems(x.rest, n - 1, got \cup {x.val})

DecOwnedSeals(s) ==
    LET n == DecInt(s, 2) IN IF ~n.ok THEN n ELSE DecSealItems(n.rest, n.val, {})

DecStock(s) ==
    LET n == DecInt(s, 2) IN
    IF ~n.ok THEN n
    ELSE IF Len(n.rest) < n.val THEN Err(IoError)
    ELSE Ok(SubSeq(n.rest, 1, n.val), Drop(n.rest, n.val))

(***************************************************************************)
(* RgbProxy: enum { None { stock, witness_txes, owned_seals },             *)
(*                  RgbV0_10 { stock, witness_txes, owned_seals } }.       *)
(***************************************************************************)
RgbProxy_none ==
    [variant |-> "None", stock |-> <<>>, witness_txes |-> {}, owned_seals |-> {}]

RgbProxy_new ==
    [variant |-> "RgbV0_10", stock |-> <<>>, witness_txes |-> {}, owned_seals |-> {}]

RgbProxy_with(support_rgb) == IF support_rgb THEN RgbProxy_new ELSE RgbProxy_none

RgbProxy_is_rgb(p) == p.variant = "RgbV0_10"

\* The version tag written most significant byte first.
VersionTag_big_endian(p) == IF p.variant = "None" THEN <<0, 0>> ELSE <<0, 1>>

\* e.write_all(&[0, 0]) and e.write_all(&[1, 0]).
VersionTag(p) == IF p.variant = "None" THEN <<0, 0>> ELSE <<1, 0>>

\* An encoder that writes the stock and the witness index only.
RgbProxy_strict_encode_no_seals(p) ==
    IF p.variant = "None"
    THEN [bytes |-> VersionTag(p), count |-> 2]
    ELSE LET stock == EncStock(p.stock)
             witness == EncWitnessTxes(p.witness_txes)
         IN  [bytes |-> VersionTag(p) \o stock \o witness,
              count |-> Len(stock) + Len(witness)]

\* impl StrictEncode for RgbProxy: the bytes written and the count returned.
RgbProxy_strict_encode(p) ==
    IF p.variant = "None"
    THEN [bytes |-> VersionTag(p), count |-> 2]
    ELSE LET stock == EncStock(p.stock)
             seals == EncOwnedSeals(p.owned_seals)
             witness == EncWitnessTxes(p.witness_txes)
         IN  [bytes |-> VersionTag(p) \o stock \o seals \o witness,
              count |-> Len(stock) + Len(seals) + Len(witness)]

\* An unknown version tag taken for the disabled variant.
UnknownVersion_as_none(wrong, rest) == Ok(RgbProxy_none, rest)

\* The arm `wrong => Err(DataIntegrityError("unsupported future version ... (v{wrong})"))`.
UnknownVersion(wrong, rest) ==
    Err([kind |-> "DataIntegrityError",
         what |-> "unsupported future version of wallet file",
         version |-> wrong])

\* The map_err of the stock's DecodeError into strict_encoding::Error.
StockError(err) ==
    IF err.kind = "Io" THEN err ELSE [kind |-> "DataIntegrityError", what |-> err]

\* impl StrictDecode for RgbProxy
RgbProxy_strict_decode(s) ==
    LET tag == DecInt(s, 2) IN
    IF ~tag.ok THEN tag
    ELSE IF tag.val = 0 THEN Ok(RgbProxy_none, tag.rest)
    ELSE IF tag.val = 1
         THEN LET stock == DecStock(tag.rest) IN
              IF ~stock.ok THEN Err(StockError(stock.err)) ELSE
              LET seals == DecOwnedSeals(stock.rest) IN
              IF ~seals.ok THEN seals ELSE
              LET witness == DecWitnessTxes(seals.rest) IN
              IF ~witness.ok THEN witness
              ELSE Ok([variant |-> "RgbV0_10", stock |-> stock.val,
                       witness_txes |-> witness.val, owned_seals |-> seals.val],
                      witness.rest)
    ELSE UnknownVersion(tag.val, tag.rest)

NoBuf == [by |-> "none", bytes |-> <<>>]

IdleRgb == proxy = RgbProxy_none /\ buf = NoBuf

(***************************************************************************)
(* Specification of the status conversions and the status ordering.        *)
(***************************************************************************)
Heights == (0 - MaxHeight)..MaxHeight

IdleTxids == a = IdleTxid /\ b = IdleTxid /\ c = IdleTxid

IdleStatus == height = 0 /\ st = Mempool /\ st2 = Mempool /\ via = "any"

InitStatus ==
    /\ height \in Heights
    /\ st \in OnchainStatusSet
    /\ st2 \in OnchainStatusSet
    /\ via = "any"
    /\ IdleMerge
    /\ IdleRgb
    /\ IdlePolicy
    /\ IdleSigner
    /\ IdleHw
    /\ res = NoRes
    /\ IdleTxids
    /\ IdleEntries

\* OnchainStatus::from_u32(height); the argument is a u32.
FromU32 ==
    /\ height >= 0
    /\ st' = OnchainStatus_from_u32(height)
    /\ via' = "from_u32"
    /\ res' = NoRes
    /\ UNCHANGED <<height, st2, a, b, c, e, f, base, acc, merged, proxy, buf, policyVars, signerVars, hwVars>>

\* OnchainStatus::from_i32(height).
FromI32 ==
    /\ st' = OnchainStatus_from_i32(height)
    /\ via' = "from_i32"
    /\ res' = NoRes
    /\ UNCHANGED <<height, st2, a, b, c, e, f, base, acc, merged, proxy, buf, policyVars, signerVars, hwVars>>

\* st.into_u32()
IntoU32 ==
    /\ res' = [op |-> "into_u32", val |-> OnchainStatus_into_u32(st)]
    /\ UNCHANGED <<height, st, st2, via, a, b, c, e, f, base, acc, merged, proxy, buf, policyVars, signerVars, hwVars>>

\* st.into_i32()
IntoI32 ==
    /\ res' = [op |-> "into_i32", val |-> OnchainStatus_into_i32(st)]
    /\ UNCHANGED <<height, st, st2, via, a, b, c, e, f, base, acc, merged, proxy, buf, policyVars, signerVars, hwVars>>

\* st.cmp(&st2)
StatusCmp ==
    /\ res' = [op |-> "status_cmp", val |-> OnchainStatus_cmp(st, st2)]
    /\ UNCHANGED <<height, st, st2, via, a, b, c, e, f, base, acc, merged, proxy, buf, policyVars, signerVars, hwVars>>

NextStatus == FromU32 \/ FromI32 \/ IntoU32 \/ IntoI32 \/ StatusCmp

SpecStatus == InitStatus /\ [][NextStatus]_vars

(***************************************************************************)
(* Specification of the ordering of OnchainTxid records.                   *)
(***************************************************************************)
InitTxid ==
    /\ a \in OnchainTxidSet
    /\ b \in OnchainTxidSet
    /\ c \in OnchainTxidSet
    /\ IdleMerge
    /\ IdleRgb
    /\ IdlePolicy
    /\ IdleSigner
    /\ IdleHw
    /\ res = NoRes
    /\ IdleStatus
    /\ IdleEntries

\* a.cmp(&b), b.cmp(&c), a.cmp(&c) and b.cmp(&a), as a sort of {a, b, c} makes them.
TxidCmp ==
    /\ res' = [op |-> "txid_cmp",
               ab |-> OnchainTxid_cmp(a, b),
               bc |-> OnchainTxid_cmp(b, c),
               ac |-> OnchainTxid_cmp(a, c),
               ba |-> OnchainTxid_cmp(b, a)]
    /\ UNCHANGED <<height, st, st2, via, a, b, c, e, f, base, acc, merged, proxy, buf, policyVars, signerVars, hwVars>>

\* a.partial_cmp(&b)
TxidPartialCmp ==
    /\ res' = [op |-> "txid_partial_cmp", val |-> OnchainTxid_partial_cmp(a, b)]
    /\ UNCHANGED <<height, st, st2, via, a, b, c, e, f, base, acc, merged, proxy, buf, policyVars, signerVars, hwVars>>

NextTxid == TxidCmp \/ TxidPartialCmp

SpecTxid == InitTxid /\ [][NextTxid]_vars

(***************************************************************************)
(* Specification of the value arithmetic of one HistoryEntry.  Amounts are *)
(* satoshi values of real transactions, far below 2^63, so that the sums   *)
(* stay inside u64 and i64.                                                *)
(***************************************************************************)
TransactionSet ==
    [inp : {1}, output : SeqsUpTo(AmountSet, MaxOutputs), wit : {0}]

\* Wallet-owned input positions of credit and output positions of debit; the
\* position MaxOutputs is past the end of every tx.output of the model.
CreditSet == MapsOver(0..1, AddressValueSet)

DebitSet == MapsOver(0..MaxOutputs, AddressSourceSet)

InitEntry ==
    /\ \E tx \in TransactionSet, credit \in CreditSet, debit \in DebitSet :
          e = MkEntry(tx, Mempool, credit, debit, 0, 0)
    /\ f = IdleEntry
    /\ IdleMerge
    /\ IdleRgb
    /\ IdlePolicy
    /\ IdleSigner
    /\ IdleHw
    /\ res = NoRes
    /\ IdleStatus
    /\ IdleTxids

\* e.value_credited()
ValueCredited ==
    /\ res' = [op |-> "value_credited", val |-> HistoryEntry_value_credited(e)]
    /\ UNCHANGED <<height, st, st2, via, a, b, c, e, f, base, acc, merged, proxy, buf, policyVars, signerVars, hwVars>>

\* e.value_debited()
ValueDebited ==
    /\ res' = [op |-> "value_debited", val |-> HistoryEntry_value_debited(e)]
    /\ UNCHANGED <<height, st, st2, via, a, b, c, e, f, base, acc, merged, proxy, buf, policyVars, signerVars, hwVars>>

\* e.balance()
Balance ==
    /\ res' = [op |-> "balance", val |-> HistoryEntry_balance(e)]
    /\ UNCHANGED <<height, st, st2, via, a, b, c, e, f, base, acc, merged, proxy, buf, policyVars, signerVars, hwVars>>

\* e.address_summaries()
AddressSummaries ==
    /\ res' = [op |-> "address_summaries", val |-> HistoryEntry_address_summaries(e)]
    /\ UNCHANGED <<height, st, st2, via, a, b, c, e, f, base, acc, merged, proxy, buf, policyVars, signerVars, hwVars>>

NextEntry == ValueCredited \/ ValueDebited \/ Balance \/ AddressSummaries

SpecEntry == InitEntry /\ [][NextEntry]_vars

(***************************************************************************)
(* Specification of the identity of HistoryEntry: e is an entry of the     *)
(* wallet history, f is the same entry as the wallet observes it again:    *)
(* with another status, other wallet-side data, or for another transaction.*)
(***************************************************************************)
SmallTransactionSet ==
    [inp : 1..MaxTxid, output : {<<>>, <<300>>}, wit : {0, 1}]

SmallCreditSet ==
    {EmptyMap,
     [k \in {0} |-> [addr_src |-> [address |-> 1, change |-> 0, index |-> 0], value |-> 300]]}

SmallDebitSet == {EmptyMap, [k \in {0} |-> [address |-> 2, change |-> 1, index |-> 0]]}

InitIdentity ==
    /\ \E tx \in SmallTransactionSet, status \in OnchainStatusSet :
          /\ tx.wit = 0
          /\ e = MkEntry(tx, status, EmptyMap, EmptyMap, 0, 0)
    /\ f = e
    /\ IdleMerge
    /\ IdleRgb
    /\ IdlePolicy
    /\ IdleSigner
    /\ IdleHw
    /\ res = NoRes
    /\ IdleStatus
    /\ IdleTxids

\* The confirmation status of the entry changes (f.onchain.status = status).
SetStatus ==
    /\ \E status \in OnchainStatusSet :
          f' = [f EXCEPT !.onchain.status = status]
    /\ res' = NoRes
    /\ UNCHANGED <<height, st, st2, via, a, b, c, e, base, acc, merged, proxy, buf, policyVars, signerVars, hwVars>>

\* The entry is for another transaction, or for the same with other witness data.
SetTx ==
    /\ \E tx \in SmallTransactionSet :
          f' = [f EXCEPT !.tx = tx, !.onchain.txid = Transaction_txid(tx)]
    /\ res' = NoRes
    /\ UNCHANGED <<height, st, st2, via, a, b, c, e, base, acc, merged, proxy, buf, policyVars, signerVars, hwVars>>

\* The wallet-side data of the entry change: credit, debit and fee.
SetLedger ==
    /\ \E credit \in SmallCreditSet, debit \in SmallDebitSet, fee \in {0, 1} :
          f' = [f EXCEPT !.credit = credit, !.debit = debit, !.fee = fee]
    /\ res' = NoRes
    /\ UNCHANGED <<height, st, st2, via, a, b, c, e, base, acc, merged, proxy, buf, policyVars, signerVars, hwVars>>

\* f.set_comment(label): comment = Some(Comment { label, timestamp: now }).
SetComment ==
    /\ \E label \in {1} :
          f' = [f EXCEPT !.comment = label]
    /\ res' = NoRes
    /\ UNCHANGED <<height, st, st2, via, a, b, c, e, base, acc, merged, proxy, buf, policyVars, signerVars, hwVars>>

\* e == f, the hashes of both, e.cmp(&f) and e.partial_cmp(&f).
EntryCompare ==
    /\ res' = [op |-> "entry_compare",
               eq |-> HistoryEntry_eq(e, f),
               hash_e |-> HistoryEntry_hash(e),
               hash_f |-> HistoryEntry_hash(f),
               cmp |-> HistoryEntry_cmp(e, f),
               partial_cmp |-> HistoryEntry_partial_cmp(e, f)]
    /\ UNCHANGED <<height, st, st2, via, a, b, c, e, f, base, acc, merged, proxy, buf, policyVars, signerVars, hwVars>>

NextIdentity == SetStatus \/ SetTx \/ SetLedger \/ SetComment \/ EntryCompare

SpecIdentity == InitIdentity /\ [][NextIdentity]_vars

(***************************************************************************)
(* Specification of the accumulation of address summaries: a base summary  *)
(* and a sequence of merge calls.  The counters stay far below the ends of *)
(* u64 and u32.                                                            *)
(***************************************************************************)
BaseSummarySet ==
    [addr_src : {[address |-> 1, change |-> 0, index |-> 0]},
     balance : {0, 100}, volume : {0, 200}, tx_count : {0, 7}]

MergedSummarySet ==
    {[addr_src |-> s, balance |-> v[1], volume |-> v[2], tx_count |-> n] :
        s \in AddressSourceSet, v \in {<<0, 0>>, <<500, 700>>}, n \in {0, 3}}

InitMerge ==
    /\ base \in BaseSummarySet
    /\ acc = base
    /\ merged = <<>>
    /\ IdleRgb
    /\ IdlePolicy
    /\ IdleSigner
    /\ IdleHw
    /\ res = NoRes
    /\ IdleStatus
    /\ IdleTxids
    /\ IdleEntries

\* acc.merge(other)
Merge ==
    /\ Len(merged) < MaxMerges
    /\ \E other \in MergedSummarySet :
          /\ acc' = AddressSummary_merge(acc, other)
          /\ merged' = Append(merged, other)
    /\ UNCHANGED <<height, st, st2, via, a, b, c, e, f, base, proxy, buf, res, policyVars, signerVars, hwVars>>

NextMerge == Merge

SpecMerge == InitMerge /\ [][NextMerge]_vars

(***************************************************************************)
(* Specification of the persistence of the extension state.  A disabled    *)
(* proxy is always RgbProxy::none(): no operation of the source fills or   *)
(* changes the fields of the None variant.  An active proxy holds any      *)
(* stock, witness transactions and seals.                                  *)
(***************************************************************************)
StockSet == SeqsUpTo({1, 2}, MaxStock)

WitnessUniverse ==
    {[txid |-> 1, status |-> Mempool, date_time |-> 0],
     [txid |-> 1, status |-> Blockchain(1), date_time |-> 1],
     [txid |-> 2, status |-> Blockchain(MaxHeight), date_time |-> 0]}

SealUniverse == {[txid |-> 1, vout |-> 0], [txid |-> 2, vout |-> 1]}

RgbProxySet ==
    {RgbProxy_none} \cup
    [variant : {"RgbV0_10"}, stock : StockSet,
     witness_txes : SUBSET WitnessUniverse, owned_seals : SUBSET SealUniverse]

\* What a wallet file may hold in place of a proxy: any version tag, followed
\* by nothing, by the payload of an active proxy, or by a part of it; and
\* files too short for a tag.
SamplePayload ==
    Drop(RgbProxy_strict_encode(
            [variant |-> "RgbV0_10", stock |-> <<1>>,
             witness_txes |-> {[txid |-> 1, status |-> Mempool, date_time |-> 0]},
             owned_seals |-> {[txid |-> 2, vout |-> 1]}]).bytes, 2)

FileSet ==
    {tag \o pay : tag \in [1..2 -> {0, 1, 2, 255}],
                  pay \in {<<>>, SamplePayload, SubSeq(SamplePayload, 1, 5)}}
    \cup {<<>>, <<1>>}

InitRgb ==
    /\ proxy \in RgbProxySet
    /\ buf = NoBuf
    /\ IdlePolicy
    /\ IdleSigner
    /\ IdleHw
    /\ res = NoRes
    /\ IdleStatus
    /\ IdleTxids
    /\ IdleEntries
    /\ IdleMerge

\* proxy.strict_encode(&mut buf) into an empty buffer.
StrictEncode ==
    /\ LET out == RgbProxy_strict_encode(proxy)
       IN  /\ buf' = [by |-> "strict_encode", bytes |-> out.bytes]
           /\ res' = [op |-> "strict_encode", ok |-> TRUE, val |-> out.count]
    /\ UNCHANGED <<height, st, st2, via, a, b, c, e, f, base, acc, merged, proxy, policyVars, signerVars, hwVars>>

\* The buffer is read from a wallet file written by something else.
ReadFile ==
    /\ \E bytes \in FileSet : buf' = [by |-> "file", bytes |-> bytes]
    /\ res' = NoRes
    /\ UNCHANGED <<height, st, st2, via, a, b, c, e, f, base, acc, merged, proxy, policyVars, signerVars, hwVars>>

\* RgbProxy::strict_decode(&buf)
StrictDecode ==
    /\ buf.by # "none"
    /\ res' = [op |-> "strict_decode"] @@ RgbProxy_strict_decode(buf.bytes)
    /\ UNCHANGED <<height, st, st2, via, a, b, c, e, f, base, acc, merged, proxy, buf, policyVars, signerVars, hwVars>>

NextRgb == StrictEncode \/ ReadFile \/ StrictDecode

SpecRgb == InitRgb /\ [][NextRgb]_vars

(***************************************************************************)
(* Timelock durations: src/types.rs                                        *)
(***************************************************************************)

\* What a call gives back: a value, or a panic that aborts the caller.
Return(v) == [ok |-> TRUE, val |-> v]

Panic(msg) == [ok |-> FALSE, panic |-> msg]

\* The largest u8: the count of Days(u8), Weeks(u8), Months(u8), Years(u8).
U8Max == 255

\* enum TimelockDuration
TimelockUnits == {"Days", "Weeks", "Months", "Years"}

TimelockDurationSet == [unit : TimelockUnits, count : 0..U8Max]

\* const DAY: u32 = 24 * 60 * 60, and the units built from it.
DAY == 86400

WEEK == DAY * 7

MONTH == DAY * 30

YEAR == DAY * 365

UnitSeconds(unit) ==
    CASE unit = "Days" -> DAY
      [] unit = "Weeks" -> WEEK
      [] unit = "Months" -> MONTH
      [] unit = "Years" -> YEAR

\* A duration whose quotient is rounded up instead of truncated.
TimelockDuration_intervals_rounded_up(d, bld) ==
    LET q == d.count * (UnitSeconds(d.unit) \div 128)
    IN  IF q >= 33554432 /\ bld = "debug"
        THEN Panic("attempt to multiply with overflow")
        ELSE Return((((q % 33554432) + 3) \div 4) % 65536)

(***************************************************************************)
(* TimelockDuration::intervals: (count as u32 * UNIT / 512) as u16.        *)
(* The product does not fit the integers of the model checker, so it is    *)
(* kept in units of 128 seconds, which is exact because every UNIT is a    *)
(* multiple of DAY = 128 * 675: with q = count * (UNIT / 128) the product  *)
(* is 128 * q, it overflows u32 exactly when q >= 2^25 = 33554432, the     *)
(* wrapped product is 128 * (q % 2^25), and its quotient by 512 is         *)
(* (q % 2^25) \div 4.  A build with overflow checks panics on the          *)
(* overflow, a build without them wraps; "as u16" keeps the low 16 bits.   *)
(***************************************************************************)
TimelockDuration_intervals(d, bld) ==
    LET q == d.count * (UnitSeconds(d.unit) \div 128)
    IN  IF q >= 33554432 /\ bld = "debug"
        THEN Panic("attempt to multiply with overflow")
        ELSE Return(((q % 33554432) \div 4) % 65536)

BuildSet == {"debug", "release"}

InitTimelock ==
    /\ duration \in TimelockDurationSet
    /\ build \in BuildSet
    /\ now = [year |-> 2023, month |-> 1, day |-> 1, secs |-> 0]
    /\ IdleStatus
    /\ IdleTxids
    /\ IdleEntries
    /\ IdleMerge
    /\ IdleRgb
    /\ IdleSigner
    /\ IdleHw
    /\ res = NoRes

\* duration.intervals()
Intervals ==
    /\ res' = [op |-> "intervals"] @@ TimelockDuration_intervals(duration, build)
    /\ UNCHANGED <<ledgerVars, rgbVars, policyVars, signerVars, hwVars>>

NextTimelock == Intervals

SpecTimelock == InitTimelock /\ [][NextTimelock]_vars

(***************************************************************************)
(* Wallet templates: src/template.rs                                       *)
(***************************************************************************)

\* The calendar years the clock is drawn from start at 2023 and span MaxYears
\* more, so that they hold the leap year 2024; u16 signer counts are drawn
\* from 0..MaxSigs.
MaxYears == 2

MaxSigs == 6

\* Option<T>: None is the empty sequence, Some(x) the sequence of x.
None == <<>>

Some(x) == <<x>>

\* chrono: a year of 366 days.
IsLeap(y) == y % 4 = 0 /\ (y % 100 # 0 \/ y % 400 = 0)

\* Utc::now(): a date of the calendar and the second of the day.
DateSet ==
    { d \in [year : 2023..(2023 + MaxYears), month : {2, 12}, day : {28, 29, 31},
             secs : {43200}] :
        \/ d.month = 2 /\ d.day = 28
        \/ d.month = 2 /\ d.day = 29 /\ IsLeap(d.year)
        \/ d.month = 12 /\ d.day = 31 }

\* chrono Datelike::with_year: the same month, day and time in another year,
\* None when that year has no such day.
DateTime_with_year(d, y) ==
    IF d.month = 2 /\ d.day = 29 /\ ~IsLeap(y) THEN None ELSE Some([d EXCEPT !.year = y])

\* enum Requirement
Requirement == {"Allow", "Require", "Deny"}

DescriptorClass == {"PreSegwit", "SegwitV0", "NestedV0", "TaprootC0"}

PublicNetwork == {"Mainnet", "Testnet", "Signet"}

\* enum SigsReq, as far as the templates build it.
SigsReq_All == [kind |-> "All", n |-> 0]

SigsReq_AtLeast(n) == [kind |-> "AtLeast", n |-> n]

SigsReq_Any == [kind |-> "Any", n |-> 0]

\* enum TimelockReq, as far as the templates build it.
TimelockReq_Anytime == [kind |-> "Anytime", date |-> None]

TimelockReq_AfterDate(d) == [kind |-> "AfterDate", date |-> Some(d)]

\* SpendingCondition::Sigs(TimelockedSigs) and its constructors.
SpendingCondition_default == [sigs |-> SigsReq_All, timelock |-> TimelockReq_Anytime]

SpendingCondition_all == [sigs |-> SigsReq_All, timelock |-> TimelockReq_Anytime]

SpendingCondition_at_least(n) == [sigs |-> SigsReq_AtLeast(n), timelock |-> TimelockReq_Anytime]

SpendingCondition_anybody_after_date(d) ==
    [sigs |-> SigsReq_Any, timelock |-> TimelockReq_AfterDate(d)]

SpendingCondition_after_date(sigs, d) == [sigs |-> sigs, timelock |-> TimelockReq_AfterDate(d)]

\* impl From<Bip43> for DerivationType
DerivationType_from(bip43) == [variant |-> "Bip43", bip43 |-> bip43]

\* descriptor_class.bip43(1): the single-signature scheme of a class.
DescriptorClass_bip43_single(class) ==
    CASE class = "PreSegwit" -> "singlesig_pkh"
      [] class = "SegwitV0" -> "singlesig_segwit0"
      [] class = "NestedV0" -> "singlesig_nested0"
      [] class = "TaprootC0" -> "singlesig_taproot"

\* match require_hardware in both single-signature constructors.
HardwareReq(require_hardware) == IF require_hardware THEN "Require" ELSE "Deny"

WatchOnlyReq(require_hardware) == IF require_hardware THEN "Deny" ELSE "Require"

\* WalletTemplate::taproot_singlesig_rgb
WalletTemplate_taproot_singlesig_rgb(net, require_hardware) ==
    Return([default_derivation |-> DerivationType_from("singlesig_taproot"),
            descriptor_class |-> "TaprootC0",
            min_signer_count |-> 1,
            max_signer_count |-> Some(1),
            hardware_req |-> HardwareReq(require_hardware),
            watch_only_req |-> WatchOnlyReq(require_hardware),
            conditions |-> {[priority |-> 0, cond |-> SpendingCondition_default]},
            network |-> net,
            use_rgb |-> TRUE])

\* WalletTemplate::singlesig
WalletTemplate_singlesig(class, net, require_hardware, use_rgb) ==
    Return([default_derivation |-> DerivationType_from(DescriptorClass_bip43_single(class)),
            descriptor_class |-> class,
            min_signer_count |-> 1,
            max_signer_count |-> Some(1),
            hardware_req |-> HardwareReq(require_hardware),
            watch_only_req |-> WatchOnlyReq(require_hardware),
            conditions |-> {[priority |-> 0, cond |-> SpendingCondition_default]},
            network |-> net,
            use_rgb |-> use_rgb])

\* now.with_year(now.year() + n).unwrap(), and a set of branches built from
\* the dates that were there.
UnwrapNone == Panic("called Option::unwrap() on a None value")

\* The conditions of WalletTemplate::hodling.
HodlingConditions(t, sigs_required) ==
    LET in5 == DateTime_with_year(t, t.year + 5)
    IN  IF sigs_required < 3
        THEN Panic("WalletTemplate::hodling must require at least 3 signers")
        ELSE IF in5 = None
        THEN UnwrapNone
        ELSE Return({[priority |-> 1, cond |-> SpendingCondition_all],
                     [priority |-> 2, cond |-> SpendingCondition_anybody_after_date(in5[1])]})

\* WalletTemplate::hodling
WalletTemplate_hodling(t, class, net, sigs_required, hardware_req, watch_only_req) ==
    LET conditions == HodlingConditions(t, sigs_required)
    IN  IF ~conditions.ok
        THEN conditions
        ELSE Return([default_derivation |-> DerivationType_from("multisig_descriptor"),
                     descriptor_class |-> class,
                     min_signer_count |-> sigs_required,
                     max_signer_count |-> None,
                     hardware_req |-> hardware_req,
                     watch_only_req |-> watch_only_req,
                     conditions |-> conditions.val,
                     network |-> net,
                     use_rgb |-> FALSE])

\* The conditions of WalletTemplate::multisig: match sigs_required.
MultisigConditions(t, sigs_required) ==
    LET in3 == DateTime_with_year(t, t.year + 3)
        in5 == DateTime_with_year(t, t.year + 5)
        count == sigs_required[1]
    IN  IF sigs_required = None
        THEN Return({[priority |-> 0, cond |-> SpendingCondition_default]})
        ELSE IF count \in {0, 1}
        THEN Panic("WalletTemplate::multisig must expect > 1 signature")
        ELSE IF count = 2
        THEN IF in5 = None
             THEN UnwrapNone
             ELSE Return({[priority |-> 1, cond |-> SpendingCondition_all],
                          [priority |-> 2,
                           cond |-> SpendingCondition_anybody_after_date(in5[1])]})
        ELSE IF count = 3
        THEN IF in5 = None
             THEN UnwrapNone
             ELSE Return({[priority |-> 1, cond |-> SpendingCondition_at_least(2)],
                          [priority |-> 2,
                           cond |-> SpendingCondition_anybody_after_date(in5[1])]})
        ELSE IF in3 = None \/ in5 = None
             THEN UnwrapNone
             ELSE Return({[priority |-> 1, cond |-> SpendingCondition_at_least(count - 1)],
                          [priority |-> 2,
                           cond |-> SpendingCondition_after_date(
                                        SigsReq_AtLeast((count \div 2) + (count % 2)),
                                        in3[1])],
                          [priority |-> 3,
                           cond |-> SpendingCondition_anybody_after_date(in5[1])]})

\* let default_derivation = match descriptor_class in WalletTemplate::multisig
MultisigDerivation(class) ==
    CASE class = "PreSegwit" -> "multisig_ordered_sh"
      [] class = "SegwitV0" -> "multisig_segwit0"
      [] class = "NestedV0" -> "multisig_nested0"
      [] class = "TaprootC0" -> "multisig_descriptor"

\* WalletTemplate::multisig
WalletTemplate_multisig(t, class, net, sigs_required, hardware_req, watch_only_req) ==
    LET conditions == MultisigConditions(t, sigs_required)
    IN  IF ~conditions.ok
        THEN conditions
        ELSE Return([default_derivation |-> DerivationType_from(MultisigDerivation(class)),
                     descriptor_class |-> class,
                     min_signer_count |-> IF sigs_required = None THEN 2 ELSE sigs_required[1],
                     max_signer_count |-> None,
                     hardware_req |-> hardware_req,
                     watch_only_req |-> watch_only_req,
                     conditions |-> conditions.val,
                     network |-> net,
                     use_rgb |-> FALSE])

\* The requirement arguments the multi-signature constructors are called with.
RequirementPairs == {<<"Allow", "Deny">>, <<"Require", "Allow">>}

\* The networks the constructors are called with.
TemplateNetworks == {"Mainnet", "Testnet"}

\* sigs_required: u16 of hodling, Option<u16> of multisig.
SigsSet == 0..MaxSigs

SigsOptSet == {None} \cup {Some(n) : n \in SigsSet}

InitTemplate ==
    /\ now \in DateSet
    /\ duration = [unit |-> "Days", count |-> 0]
    /\ build = "release"
    /\ IdleStatus
    /\ IdleTxids
    /\ IdleEntries
    /\ IdleMerge
    /\ IdleRgb
    /\ IdleSigner
    /\ IdleHw
    /\ res = NoRes

\* WalletTemplate::taproot_singlesig_rgb(network, require_hardware)
TaprootSinglesigRgb ==
    /\ \E net \in TemplateNetworks, require_hardware \in BOOLEAN :
          res' = [op |-> "taproot_singlesig_rgb",
                  args |-> [network |-> net, require_hardware |-> require_hardware]]
                 @@ WalletTemplate_taproot_singlesig_rgb(net, require_hardware)
    /\ UNCHANGED <<ledgerVars, rgbVars, policyVars, signerVars, hwVars>>

\* WalletTemplate::singlesig(descriptor_class, network, require_hardware, use_rgb)
Singlesig ==
    /\ \E class \in DescriptorClass, net \in TemplateNetworks,
          require_hardware \in BOOLEAN, use_rgb \in BOOLEAN :
          res' = [op |-> "singlesig",
                  args |-> [descriptor_class |-> class, network |-> net,
                            require_hardware |-> require_hardware, use_rgb |-> use_rgb]]
                 @@ WalletTemplate_singlesig(class, net, require_hardware, use_rgb)
    /\ UNCHANGED <<ledgerVars, rgbVars, policyVars, signerVars, hwVars>>

\* WalletTemplate::hodling(descriptor_class, network, sigs_required, hardware_req,
\* watch_only_req), called when the clock shows now.
Hodling ==
    /\ \E class \in DescriptorClass, net \in TemplateNetworks, sigs_required \in SigsSet,
          req \in RequirementPairs :
          res' = [op |-> "hodling",
                  args |-> [descriptor_class |-> class, network |-> net,
                            sigs_required |-> sigs_required,
                            hardware_req |-> req[1], watch_only_req |-> req[2]]]
                 @@ WalletTemplate_hodling(now, class, net, sigs_required, req[1], req[2])
    /\ UNCHANGED <<ledgerVars, rgbVars, policyVars, signerVars, hwVars>>

\* WalletTemplate::multisig(descriptor_class, network, sigs_required, hardware_req,
\* watch_only_req), called when the clock shows now.
Multisig ==
    /\ \E class \in DescriptorClass, net \in TemplateNetworks, sigs_required \in SigsOptSet,
          req \in RequirementPairs :
          res' = [op |-> "multisig",
                  args |-> [descriptor_class |-> class, network |-> net,
                            sigs_required |-> sigs_required,
                            hardware_req |-> req[1], watch_only_req |-> req[2]]]
                 @@ WalletTemplate_multisig(now, class, net, sigs_required, req[1], req[2])
    /\ UNCHANGED <<ledgerVars, rgbVars, policyVars, signerVars, hwVars>>

NextTemplate == TaprootSinglesigRgb \/ Singlesig \/ Hodling \/ Multisig

SpecTemplate == InitTemplate /\ [][NextTemplate]_vars

(***************************************************************************)
(* The operations that abort on a violated caller contract: the template   *)
(* constructors above and the mutable accessors of RgbProxy.               *)
(***************************************************************************)

\* impl DerefMut for RgbProxy
RgbProxy_deref_mut(p) ==
    IF p.variant = "None"
    THEN Panic("writing RGB stock in non-RGB wallet")
    ELSE Return(p.stock)

\* RgbProxy::witness_txes_mut
RgbProxy_witness_txes_mut(p) ==
    IF p.variant = "None"
    THEN Panic("writing RGB witntess index in non-RGB wallet")
    ELSE Return(p.witness_txes)

InitContract ==
    /\ now \in DateSet
    /\ duration = [unit |-> "Days", count |-> 0]
    /\ build = "release"
    /\ \E support_rgb \in BOOLEAN : proxy = RgbProxy_with(support_rgb)
    /\ buf = NoBuf
    /\ IdleStatus
    /\ IdleTxids
    /\ IdleEntries
    /\ IdleMerge
    /\ IdleSigner
    /\ IdleHw
    /\ res = NoRes

\* &mut *proxy
DerefMut ==
    /\ res' = [op |-> "deref_mut"] @@ RgbProxy_deref_mut(proxy)
    /\ UNCHANGED <<ledgerVars, rgbVars, policyVars, signerVars, hwVars>>

\* proxy.witness_txes_mut()
WitnessTxesMut ==
    /\ res' = [op |-> "witness_txes_mut"] @@ RgbProxy_witness_txes_mut(proxy)
    /\ UNCHANGED <<ledgerVars, rgbVars, policyVars, signerVars, hwVars>>

NextContract == NextTemplate \/ DerefMut \/ WitnessTxesMut

SpecContract == InitContract /\ [][NextContract]_vars

(***************************************************************************)
(* Hardware enumeration: HardwareList::enumerate, src/types.rs             *)
(***************************************************************************)

\* At most MaxDevices devices are discovered, with fingerprints 1..MaxFp.
MaxDevices == 3

MaxFp == 2

\* What one discovered device answers: its listing is an error (locked), its
\* client cannot be opened, it refuses the derivation, or it gives its xpub.
DeviceOutcomes == {"locked", "no_client", "unsupported", "ok"}

DeviceSet == [fingerprint : 1..MaxFp, outcome : DeviceOutcomes]

\* HWIClient::enumerate(): an error, or the devices in discovery order.
DiscoverySet ==
    {[ok |-> FALSE, list |-> <<>>]}
        \cup {[ok |-> TRUE, list |-> l] : l \in SeqsUpTo(DeviceSet, MaxDevices)}

\* enum Error; the hwi error inside is told by the device it came from,
\* device 0 being the discovery itself.
Error_NoDevices(device, hwi) == [variant |-> "NoDevices", device |-> device, hwi |-> hwi]

Error_DerivationNotSupported(device, fingerprint, scheme, net) ==
    [variant |-> "DerivationNotSupported", device |-> device, fingerprint |-> fingerprint,
     scheme |-> scheme, network |-> net, hwi |-> "unsupported"]

\* BTreeMap::insert: the entry of the key is set, whether it was there or not.
MapInsert(m, k, v) == [x \in DOMAIN m \cup {k} |-> IF x = k THEN v ELSE m[x]]

\* A discovery failure that is logged instead of returned.
HardwareList_discover_logged(found) ==
    IF found.ok
    THEN [ok |-> TRUE, log |-> <<>>]
    ELSE [ok |-> TRUE, log |-> <<Error_NoDevices(0, "discovery")>>]

\* for device in HWIClient::enumerate()? : the failure of the discovery is
\* returned by the ? operator through From<hwi::error::Error> for Error.
HardwareList_discover(found) ==
    IF found.ok
    THEN [ok |-> TRUE, log |-> <<>>]
    ELSE [ok |-> FALSE, err |-> Error_NoDevices(0, "discovery")]

\* A loop body whose insertion keeps the entry that is already there.
HardwareList_probe_keep_first(i, device, scheme, net, registry, errors) ==
    CASE device.outcome = "locked" ->
            [devices |-> registry, log |-> Append(errors, Error_NoDevices(i, "locked"))]
      [] device.outcome = "no_client" ->
            [devices |-> registry, log |-> Append(errors, Error_NoDevices(i, "no_client"))]
      [] device.outcome = "unsupported" ->
            [devices |-> registry,
             log |-> Append(errors, Error_DerivationNotSupported(i, device.fingerprint,
                                                                 scheme, net))]
      [] device.outcome = "ok" ->
            [devices |-> IF device.fingerprint \in DOMAIN registry
                         THEN registry
                         ELSE MapInsert(registry, device.fingerprint,
                                        [device |-> i, network |-> net]),
             log |-> errors]

\* The body of the loop for the i-th discovered device.
HardwareList_probe(i, device, scheme, net, registry, errors) ==
    CASE device.outcome = "locked" ->
            [devices |-> registry, log |-> Append(errors, Error_NoDevices(i, "locked"))]
      [] device.outcome = "no_client" ->
            [devices |-> registry, log |-> Append(errors, Error_NoDevices(i, "no_client"))]
      [] device.outcome = "unsupported" ->
            [devices |-> registry,
             log |-> Append(errors, Error_DerivationNotSupported(i, device.fingerprint,
                                                                 scheme, net))]
      [] device.outcome = "ok" ->
            [devices |-> MapInsert(registry, device.fingerprint,
                                   [device |-> i, network |-> net]),
             log |-> errors]

InitHw ==
    /\ discovered \in DiscoverySet
    /\ pc = 0
    /\ devices = EmptyMap
    /\ log = <<>>
    /\ probes = 0
    /\ xpub = [depth |-> 0, parent_fingerprint |-> 0,
               child_number |-> [hardened |-> FALSE, index |-> 0], key |-> 1]
    /\ schema = [account_depth |-> <<>>, coin_type_depth |-> <<>>]
    /\ network \in {"Mainnet", "Testnet"}
    /\ IdleStatus
    /\ IdleTxids
    /\ IdleEntries
    /\ IdleMerge
    /\ IdleRgb
    /\ IdlePolicy
    /\ res = NoRes

\* HardwareList::enumerate is called: the locals are made and the devices are
\* discovered; a failed discovery returns at once.
Discover ==
    /\ pc = 0
    /\ res = NoRes
    /\ LET start == HardwareList_discover(discovered)
       IN  /\ devices' = EmptyMap
           /\ probes' = 0
           /\ IF start.ok
              THEN /\ log' = start.log
                   /\ pc' = 1
                   /\ res' = NoRes
              ELSE /\ log' = <<>>
                   /\ pc' = 0
                   /\ res' = [op |-> "enumerate", ok |-> FALSE, err |-> start.err]
    /\ UNCHANGED <<ledgerVars, rgbVars, policyVars, signerVars, discovered>>

\* One turn of the loop, for the device at position pc.
Probe ==
    /\ pc \in 1..Len(discovered.list)
    /\ LET device == discovered.list[pc]
           out == HardwareList_probe(pc, device, schema, network, devices, log)
       IN  /\ devices' = out.devices
           /\ log' = out.log
           /\ probes' = IF device.outcome = "ok" THEN probes + 1 ELSE probes
    /\ pc' = pc + 1
    /\ UNCHANGED <<ledgerVars, rgbVars, policyVars, signerVars, discovered, res>>

\* Ok((devices.into(), log)) after the last device.
Finish ==
    /\ pc = Len(discovered.list) + 1
    /\ res = NoRes
    /\ res' = [op |-> "enumerate", ok |-> TRUE, val |-> [devices |-> devices, log |-> log]]
    /\ UNCHANGED <<ledgerVars, rgbVars, policyVars, signerVars, hwVars>>

NextHw == Discover \/ Probe \/ Finish

SpecHw == InitHw /\ [][NextHw]_vars

(***************************************************************************)
(* Signers made of a bare extended public key: Signer::with_xpub,          *)
(* src/types.rs                                                            *)
(***************************************************************************)

\* The depth of an xpub and the depths a scheme declares are 0..MaxDepth and
\* 1..MaxDepth; there are MaxKeys public keys.
MaxDepth == 4

MaxKeys == 2

\* zero!(): the fingerprint of an unknown master key.
ZeroFingerprint == 0

\* xpub.fingerprint(): the first bytes of the hash of the public key; the
\* hashes of the keys are told apart and none is zero.
ExtendedPubKey_fingerprint(x) == 10 + x.key

\* ChildNumber: a normal or a hardened index.
ChildNumberSet == [hardened : BOOLEAN, index : {0, 1}]

ChildNumber_zero == [hardened |-> FALSE, index |-> 0]

\* HardenedIndex::try_from(child_number).ok()
HardenedIndex_try_from(child) == IF child.hardened THEN Some(child.index) ELSE None

\* DerivationBlockchain::from(network).coin_type().into(): 0' for the main
\* network and 1' for the test networks.
CoinType(net) == [hardened |-> TRUE, index |-> IF net = "Mainnet" THEN 0 ELSE 1]

\* ExtendedPubKey, as far as with_xpub reads it.
XpubSet ==
    [depth : 0..MaxDepth,
     parent_fingerprint : {ZeroFingerprint} \cup {10 + k : k \in 1..MaxKeys},
     child_number : ChildNumberSet,
     key : 1..MaxKeys]

\* Bip43, as far as with_xpub reads it: account_depth() and coin_type_depth().
DepthOptSet == {None} \cup {Some(d) : d \in 1..MaxDepth}

SchemaSet == [account_depth : DepthOptSet, coin_type_depth : DepthOptSet]

\* A reconstruction that takes the parent of a deep key for its master.
WithXpubOrigin_parent_as_master(x, s, net) ==
    IF x.depth = 0
    THEN [fingerprint |-> ExtendedPubKey_fingerprint(x), origin |-> <<>>, account |-> None]
    ELSE [fingerprint |-> x.parent_fingerprint,
          origin |-> <<x.child_number>>,
          account |-> HardenedIndex_try_from(x.child_number)]

\* let (fingerprint, origin, account) = match (xpub.depth, schema.account_depth())
WithXpubOrigin(x, s, net) ==
    IF x.depth = 0
    THEN [fingerprint |-> ExtendedPubKey_fingerprint(x), origin |-> <<>>, account |-> None]
    ELSE IF x.depth = 1
    THEN [fingerprint |-> x.parent_fingerprint,
          origin |-> <<x.child_number>>,
          account |-> HardenedIndex_try_from(x.child_number)]
    ELSE IF /\ s.account_depth # None
            /\ x.child_number.hardened
            /\ x.depth = s.account_depth[1]
    THEN LET account_depth == s.account_depth[1]
             coin_depth == IF s.coin_type_depth = None
                           THEN account_depth ELSE s.coin_type_depth[1]
             max_depth == IF coin_depth >= account_depth THEN coin_depth ELSE account_depth
             min_depth == IF coin_depth <= account_depth THEN coin_depth ELSE account_depth
             path == IF max_depth - min_depth # 1
                     THEN <<x.child_number>>
                     ELSE [[<<ChildNumber_zero, ChildNumber_zero>>
                               EXCEPT ![coin_depth - min_depth + 1] = CoinType(net)]
                               EXCEPT ![account_depth - min_depth + 1] = x.child_number]
         IN  [fingerprint |-> ZeroFingerprint,
              origin |-> path,
              account |-> HardenedIndex_try_from(x.child_number)]
    ELSE [fingerprint |-> ZeroFingerprint,
          origin |-> <<x.child_number>>,
          account |-> HardenedIndex_try_from(x.child_number)]

\* Signer::with_xpub
Signer_with_xpub(x, s, net) ==
    LET found == WithXpubOrigin(x, s, net)
    IN  [master_fp |-> found.fingerprint,
         device |-> None,
         name |-> "",
         origin |-> found.origin,
         xpub |-> x,
         account |-> found.account,
         ownership |-> "External"]

\* Signer::is_master_known
Signer_is_master_known(signer) == signer.master_fp # ZeroFingerprint

InitSigner ==
    /\ xpub \in XpubSet
    /\ schema \in SchemaSet
    /\ network \in PublicNetwork
    /\ IdleStatus
    /\ IdleTxids
    /\ IdleEntries
    /\ IdleMerge
    /\ IdleRgb
    /\ IdlePolicy
    /\ IdleHw
    /\ res = NoRes

\* Signer::with_xpub(xpub, &schema, network)
WithXpub ==
    /\ res' = [op |-> "with_xpub"] @@ Return(Signer_with_xpub(xpub, schema, network))
    /\ UNCHANGED <<ledgerVars, rgbVars, policyVars, signerVars, hwVars>>

\* signer.is_master_known(), on the signer that with_xpub returned.
IsMasterKnown ==
    /\ res.op = "with_xpub"
    /\ res' = [op |-> "is_master_known", signer |-> res.val]
              @@ Return(Signer_is_master_known(res.val))
    /\ UNCHANGED <<ledgerVars, rgbVars, policyVars, signerVars, hwVars>>

NextSigner == WithXpub \/ IsMasterKnown

SpecSigner == InitSigner /\ [][NextSigner]_vars

(***************************************************************************)
(* Estimated block time: OnchainStatus::date_time_est, src/onchain.rs      *)
(***************************************************************************)

\* The largest and the smallest i32.
I32Max == 2147483647

I32Min == (0 - I32Max) - 1

\* let reference_height = 733961; let reference_time = 1651158666_i32;
reference_height == 733961

reference_time == 1651158666

\* A u32 height is kept as its top bit and its low 31 bits, hi * 2^31 + lo,
\* because the integers of the model checker are as wide as an i32.
U32(hi, lo) == [hi |-> hi, lo |-> lo]

\* height as i32: the same 32 bits read as a signed number.
AsI32(h) == IF h.hi = 0 THEN h.lo ELSE (h.lo - 1073741824) - 1073741824

\* height as i32 - reference_height: the difference, when it is below the
\* smallest i32, aborts a build that checks overflow and wraps by 2^32
\* otherwise (2147483647 + 2146749688 = 2^32 - 733961).
HeightDiff(h32, bld) ==
    IF h32 >= I32Min + reference_height
    THEN Return(h32 - reference_height)
    ELSE IF bld = "debug"
    THEN Panic("attempt to subtract with overflow")
    ELSE Return((h32 + 2147483647) + 2146749688)

\* 75 * d modulo 2^29 = 536870912, by doubling, every step within an i32.
Double29(x) == (2 * x) % 536870912

Times75Mod29(d) ==
    LET x1 == d % 536870912
        x2 == Double29(x1)
        x8 == Double29(Double29(x2))
        x64 == Double29(Double29(Double29(x8)))
    IN  (((x64 + x8) % 536870912) + ((x2 + x1) % 536870912)) % 536870912

\* height_diff * 600 in i32. The product fits exactly when height_diff is
\* within -3579139..3579139; beyond, a build that checks overflow aborts and
\* another wraps modulo 2^32. 600 = 8 * 75 and 2^32 = 8 * 2^29, so the wrapped
\* product is 8 times the signed residue of 75 * height_diff modulo 2^29.
Times600(d, bld) ==
    IF d >= 0 - 3579139 /\ d <= 3579139
    THEN Return(d * 600)
    ELSE IF bld = "debug"
    THEN Panic("attempt to multiply with overflow")
    ELSE LET u == Times75Mod29(d)
         IN  Return(8 * (IF u >= 268435456 THEN u - 536870912 ELSE u))

\* i32::saturating_add
I32_saturating_add(x, y) ==
    IF y >= 0
    THEN IF x > I32Max - y THEN I32Max ELSE x + y
    ELSE IF x < I32Min - y THEN I32Min ELSE x + y

\* OnchainStatus::date_time_est: the clock for a transaction in the mempool,
\* and for a mined one the unix time of the estimate; every i32 is a valid
\* timestamp, so from_timestamp_opt(..).expect(..) never aborts.
OnchainStatus_date_time_est(s, t, bld) ==
    IF s.tag = "Mempool"
    THEN Return([source |-> "clock", at |-> t])
    ELSE LET height_diff == HeightDiff(AsI32(s.height), bld)
             product == Times600(height_diff.val, bld)
         IN  IF ~height_diff.ok
             THEN height_diff
             ELSE IF ~product.ok
             THEN product
             ELSE Return([source |-> "estimate",
                          unix |-> I32_saturating_add(reference_time, product.val)])

\* The heights the estimate is asked for: the first blocks, the blocks around
\* the reference height, around the last height whose estimate is below
\* 2^31, around the last height whose product fits an i32, and around the
\* ends of the two halves of u32.
DateHeights ==
    {U32(0, lo) : lo \in 1..(2 * MaxHeight + 1)}
        \cup {U32(0, x + k) : x \in {reference_height, 1561169, 4313100},
                              k \in (0 - MaxHeight)..MaxHeight}
        \cup {U32(hi, I32Max - k) : hi \in {0, 1}, k \in 0..(2 * MaxHeight)}
        \cup {U32(1, k) : k \in 0..(2 * MaxHeight)}
        \cup {U32(1, reference_height + k) : k \in (0 - MaxHeight)..MaxHeight}

DateStatusSet ==
    {[tag |-> "Mempool", height |-> U32(0, 0)]}
        \cup {[tag |-> "Blockchain", height |-> h] : h \in DateHeights}

InitDate ==
    /\ st \in DateStatusSet
    /\ build \in BuildSet
    /\ now = [year |-> 2023, month |-> 1, day |-> 1, secs |-> 0]
    /\ duration = [unit |-> "Days", count |-> 0]
    /\ height = 0
    /\ st2 = Mempool
    /\ via = "any"
    /\ IdleTxids
    /\ IdleEntries
    /\ IdleMerge
    /\ IdleRgb
    /\ IdleSigner
    /\ IdleHw
    /\ res = NoRes

\* st.date_time_est()
DateTimeEst ==
    /\ res' = [op |-> "date_time_est"] @@ OnchainStatus_date_time_est(st, now, build)
    /\ UNCHANGED <<ledgerVars, rgbVars, policyVars, signerVars, hwVars>>

NextDate == DateTimeEst

SpecDate == InitDate /\ [][NextDate]_vars

(***************************************************************************)
(* C1 (as stated). Mempool compares as height 0: comparing two statuses    *)
(* gives the same result as comparing their into_u32() values, so Mempool  *)
(* is below every Blockchain(h) with h > 0.                                *)
(***************************************************************************)
C1_MempoolSortsAsHeightZero ==
    res.op = "status_cmp" =>
        res.val = IntCmp(OnchainStatus_into_u32(st), OnchainStatus_into_u32(st2))

(***************************************************************************)
(* C1 (amended). Mempool is above every confirmed height: Blockchain(h) <  *)
(* Mempool for every h, Mempool = Mempool, and Blockchain(x) against       *)
(* Blockchain(y) compares as x against y.                                  *)
(***************************************************************************)
C1_MempoolSortsLast ==
    res.op = "status_cmp" =>
        /\ (st.tag = "Mempool" /\ st2.tag = "Blockchain") => res.val = "Greater"
        /\ (st.tag = "Blockchain" /\ st2.tag = "Mempool") => res.val = "Less"
        /\ (st.tag = "Mempool" /\ st2.tag = "Mempool") => res.val = "Equal"
        /\ (st.tag = "Blockchain" /\ st2.tag = "Blockchain") =>
              /\ res.val = "Less" <=> st.height < st2.height
              /\ res.val = "Equal" <=> st.height = st2.height
              /\ res.val = "Greater" <=> st.height > st2.height

C1_Witness ==
    /\ res.op = "status_cmp"
    /\ st = Mempool
    /\ st2 = Blockchain(2)
    /\ res.val = "Greater"

(***************************************************************************)
(* C2. OnchainTxid::cmp orders by status first and by txid only when the   *)
(* statuses are equal; it is total (b.cmp(a) is the reverse of a.cmp(b),   *)
(* Equal exactly on equal keys) and transitive; partial_cmp is None        *)
(* exactly for the same txid with different status and Some(cmp) otherwise.*)
(***************************************************************************)
C2_TxidOrder ==
    /\ res.op = "txid_cmp" =>
          /\ a.status # b.status => res.ab = OnchainStatus_cmp(a.status, b.status)
          /\ a.status = b.status => res.ab = IntCmp(a.txid, b.txid)
          /\ res.ba = Reverse(res.ab)
          /\ res.ab = "Equal" <=> (a.status = b.status /\ a.txid = b.txid)
          /\ (res.ab # "Greater" /\ res.bc # "Greater") => res.ac # "Greater"
          /\ (res.ab = "Less" /\ res.bc # "Greater") => res.ac = "Less"
          /\ (res.ab # "Greater" /\ res.bc = "Less") => res.ac = "Less"
    /\ res.op = "txid_partial_cmp" =>
          /\ res.val = "None" <=> (a.txid = b.txid /\ a.status # b.status)
          /\ res.val # "None" => res.val = OnchainTxid_cmp(a, b)

C2_Witness ==
    /\ res.op = "txid_partial_cmp"
    /\ res.val = "None"
    /\ a.status = Mempool
    /\ b.status = Blockchain(1)

(***************************************************************************)
(* C3. Two HistoryEntry values that hold the same transaction are equal    *)
(* under == and hash alike, whatever their status, credit, debit, fee or   *)
(* comment; entries of different transactions are never equal.             *)
(***************************************************************************)
SameTransaction(x, y) == x.tx.inp = y.tx.inp /\ x.tx.output = y.tx.output

C3_IdentityIsTxid ==
    res.op = "entry_compare" =>
        /\ SameTransaction(e, f) => (res.eq /\ res.hash_e = res.hash_f)
        /\ ~SameTransaction(e, f) => ~res.eq

C3_Witness ==
    /\ res.op = "entry_compare"
    /\ res.eq
    /\ res.hash_e = res.hash_f
    /\ e.onchain.status # f.onchain.status
    /\ e.credit # f.credit
    /\ e.debit # f.debit
    /\ e.fee # f.fee
    /\ e.comment # f.comment

(***************************************************************************)
(* C4. Two entries are equal exactly when cmp finds them Equal, so that an *)
(* entry keeps its place in an ordered collection when only its            *)
(* confirmation status changes.                                            *)
(***************************************************************************)
C4_EqConsistentWithCmp ==
    res.op = "entry_compare" => (res.eq <=> res.cmp = "Equal")

(***************************************************************************)
(* C5. balance() is value_debited() minus value_credited(), signed:        *)
(* value_credited is the sum of the values of credit, value_debited the    *)
(* sum of the amounts of the outputs of tx at the indices of debit, an     *)
(* index that is not an output of tx counting 0.                           *)
(***************************************************************************)
RECURSIVE SumOver(_, _)
SumOver(S, F) ==
    IF S = {} THEN 0
    ELSE LET k == CHOOSE k \in S : TRUE IN F[k] + SumOver(S \ {k}, F)

CreditedValue(x) == SumOver(DOMAIN x.credit, [k \in DOMAIN x.credit |-> x.credit[k].value])

DebitedValue(x) ==
    SumOver(DOMAIN x.debit,
            [k \in DOMAIN x.debit |->
                IF k + 1 \in DOMAIN x.tx.output THEN x.tx.output[k + 1] ELSE 0])

C5_Balance ==
    /\ res.op = "value_credited" => res.val = CreditedValue(e)
    /\ res.op = "value_debited" => res.val = DebitedValue(e)
    /\ res.op = "balance" => res.val = DebitedValue(e) - CreditedValue(e)

C5_Witness ==
    /\ res.op = "balance"
    /\ DebitedValue(e) = 1000
    /\ CreditedValue(e) = 300
    /\ MaxOutputs \in DOMAIN e.debit
    /\ res.val = 700

(***************************************************************************)
(* C6. After n merge calls on a base summary, tx_count is base.tx_count +  *)
(* n whatever the tx_count of the merged summaries, balance and volume are *)
(* the base values plus the sums of the merged ones, addr_src is that of   *)
(* the base, and merging the same summaries in any other order gives the   *)
(* same result.                                                            *)
(***************************************************************************)
RECURSIVE MergeInOrder(_, _, _)
MergeInOrder(s, others, order) ==
    IF order = <<>> THEN s
    ELSE MergeInOrder(AddressSummary_merge(s, others[Head(order)]), others, Tail(order))

C6_MergeAccumulates ==
    LET n == Len(merged)
    IN  /\ acc.tx_count = base.tx_count + n
        /\ acc.balance = base.balance + SeqSum([i \in 1..n |-> merged[i].balance])
        /\ acc.volume = base.volume + SeqSum([i \in 1..n |-> merged[i].volume])
        /\ acc.addr_src = base.addr_src
        /\ \A p \in Permutations(1..n) :
              MergeInOrder(base, merged, [i \in 1..n |-> p[i]]) = acc

C6_Witness ==
    /\ Len(merged) = MaxMerges
    /\ \E i \in 1..Len(merged) : merged[i].tx_count = 3
    /\ \E i, j \in 1..Len(merged) : merged[i] # merged[j]
    /\ \E i \in 1..Len(merged) : merged[i].addr_src # base.addr_src
    /\ base.tx_count = 7
    /\ acc.tx_count = 7 + MaxMerges

(***************************************************************************)
(* C7. address_summaries() is one summary per entry of credit followed by  *)
(* one per entry of debit: balance 0, volume 0, tx_count 1 for a credited  *)
(* address; balance 0, tx_count 1 and the amount of the output at the      *)
(* debit index (0 when tx has no such output) as volume for a debited one. *)
(***************************************************************************)
Rank(k, S) == Cardinality({j \in S : j <= k})

C7_AddressSummaries ==
    res.op = "address_summaries" =>
        LET nc == Cardinality(DOMAIN e.credit)
            nd == Cardinality(DOMAIN e.debit)
        IN  /\ Len(res.val) = nc + nd
            /\ \A k \in DOMAIN e.credit :
                  res.val[Rank(k, DOMAIN e.credit)] =
                      [addr_src |-> e.credit[k].addr_src, balance |-> 0,
                       volume |-> 0, tx_count |-> 1]
            /\ \A k \in DOMAIN e.debit :
                  res.val[nc + Rank(k, DOMAIN e.debit)] =
                      [addr_src |-> e.debit[k], balance |-> 0,
                       volume |-> IF k < Len(e.tx.output)
                                  THEN e.tx.output[k + 1] ELSE 0,
                       tx_count |-> 1]

C7_Witness ==
    /\ res.op = "address_summaries"
    /\ Len(res.val) = 4
    /\ DOMAIN e.credit = {0, 1}
    /\ DOMAIN e.debit = {0, MaxOutputs}
    /\ e.tx.output = <<700>>
    /\ res.val[3].volume = 700
    /\ res.val[4].volume = 0

(***************************************************************************)
(* C8. from_u32(h).into_u32() = h for every h > 0; from_u32(0) is Mempool  *)
(* and Mempool.into_u32() is 0; from_i32(h) is Mempool for every h <= 0.   *)
(***************************************************************************)
C8_HeightRoundTrip ==
    /\ (via = "from_u32" /\ height > 0 /\ res.op = "into_u32") => res.val = height
    /\ (via = "from_u32" /\ height = 0) => st = Mempool
    /\ (st = Mempool /\ res.op = "into_u32") => res.val = 0
    /\ (via = "from_i32" /\ height <= 0) => st = Mempool

C8_Witness ==
    /\ via = "from_u32"
    /\ height = MaxHeight
    /\ res.op = "into_u32"
    /\ res.val = MaxHeight

(***************************************************************************)
(* C9. Decoding the bytes that encoding an RgbProxy produced yields an     *)
(* equal value: the same variant with the same stock, witness-txid index   *)
(* and owned seals.                                                        *)
(***************************************************************************)
C9_RoundTrip ==
    (res.op = "strict_decode" /\ buf.by = "strict_encode") =>
        /\ res.ok
        /\ res.val.variant = proxy.variant
        /\ res.val.stock = proxy.stock
        /\ res.val.witness_txes = proxy.witness_txes
        /\ res.val.owned_seals = proxy.owned_seals
        /\ res.rest = <<>>

C9_Witness ==
    /\ res.op = "strict_decode"
    /\ buf.by = "strict_encode"
    /\ res.ok
    /\ proxy.variant = "RgbV0_10"
    /\ Len(proxy.stock) = MaxStock
    /\ proxy.witness_txes = WitnessUniverse
    /\ proxy.owned_seals = SealUniverse
    /\ res.val = proxy

(***************************************************************************)
(* C10. Decoding a buffer whose 2-byte version tag is neither 0x0000 nor   *)
(* 0x0001 fails with a data-integrity error that carries the version; it   *)
(* never yields a value.                                                   *)
(***************************************************************************)
TagOf(bytes) == bytes[1] + 256 * bytes[2]

C10_UnknownVersionRejected ==
    (res.op = "strict_decode" /\ Len(buf.bytes) >= 2 /\ TagOf(buf.bytes) \notin {0, 1}) =>
        /\ ~res.ok
        /\ res.err.kind = "DataIntegrityError"
        /\ res.err.version = TagOf(buf.bytes)

C10_Witness ==
    /\ res.op = "strict_decode"
    /\ buf.by = "file"
    /\ Len(buf.bytes) > 2
    /\ TagOf(buf.bytes) = 2
    /\ ~res.ok
    /\ res.err.version = 2

(***************************************************************************)
(* C11 as stated. The encoded RgbProxy is the 2-byte version tag followed  *)
(* by the payload: nothing for the disabled variant, and for the active    *)
(* variant exactly the stock and then the witness-txid index.              *)
(***************************************************************************)
C11_PayloadIsStockThenWitnesses ==
    res.op = "strict_encode" =>
        /\ Len(buf.bytes) >= 2
        /\ TagOf(buf.bytes) = (IF proxy.variant = "None" THEN 0 ELSE 1)
        /\ Drop(buf.bytes, 2) =
               IF proxy.variant = "None"
               THEN <<>>
               ELSE EncStock(proxy.stock) \o EncWitnessTxes(proxy.witness_txes)

(***************************************************************************)
(* C11, amended. The encoded RgbProxy is the 2-byte version tag, 0x0000    *)
(* for the disabled and 0x0001 for the active variant, little-endian,      *)
(* followed by the payload: nothing for the disabled variant, and for the  *)
(* active variant the stock, then the set of owned seals, then the         *)
(* witness-txid index, and nothing else.                                   *)
(***************************************************************************)
C11_PayloadIsStockSealsWitnesses ==
    res.op = "strict_encode" =>
        /\ Len(buf.bytes) >= 2
        /\ TagOf(buf.bytes) = (IF proxy.variant = "None" THEN 0 ELSE 1)
        /\ Drop(buf.bytes, 2) =
               IF proxy.variant = "None"
               THEN <<>>
               ELSE EncStock(proxy.stock) \o EncOwnedSeals(proxy.owned_seals)
                        \o EncWitnessTxes(proxy.witness_txes)

C11_Witness ==
    /\ res.op = "strict_encode"
    /\ proxy.variant = "RgbV0_10"
    /\ proxy.stock # <<>>
    /\ proxy.owned_seals = SealUniverse
    /\ proxy.witness_txes # {}
    /\ Len(buf.bytes) > 2 + Len(EncStock(proxy.stock)) + Len(EncWitnessTxes(proxy.witness_txes))

(***************************************************************************)
(* C13. For every TimelockDuration, Days, Weeks, Months or Years with any  *)
(* count 0..255, intervals() returns the duration in seconds (a day is     *)
(* 86400 s, a week 7 days, a month 30 days, a year 365 days) divided by    *)
(* 512 with truncating division: never rounded up, wrapped or reduced.     *)
(* 86400 / 512 = 675 / 4, so the quotient is (count * days * 675) \div 4.  *)
(***************************************************************************)
DaysIn(unit) ==
    CASE unit = "Days" -> 1
      [] unit = "Weeks" -> 7
      [] unit = "Months" -> 30
      [] unit = "Years" -> 365

ExactIntervals(d) == (d.count * DaysIn(d.unit) * 675) \div 4

C13_IntervalsExact ==
    res.op = "intervals" =>
        /\ res.ok
        /\ res.val = ExactIntervals(duration)

(***************************************************************************)
(* C14 as stated. Days(1).intervals() is 168 and Weeks(1).intervals() is   *)
(* 1182.                                                                   *)
(***************************************************************************)
C14_DayIs168WeekIs1182 ==
    res.op = "intervals" =>
        /\ duration = [unit |-> "Days", count |-> 1] => (res.ok /\ res.val = 168)
        /\ duration = [unit |-> "Weeks", count |-> 1] => (res.ok /\ res.val = 1182)

(***************************************************************************)
(* C14, amended. Days(1).intervals() is 168 and Weeks(1).intervals() is    *)
(* 1181, the truncated quotient of 604800 by 512.                          *)
(***************************************************************************)
C14_DayIs168WeekIs1181 ==
    res.op = "intervals" =>
        /\ duration = [unit |-> "Days", count |-> 1] => (res.ok /\ res.val = 168)
        /\ duration = [unit |-> "Weeks", count |-> 1] => (res.ok /\ res.val = 1181)

C14_Witness ==
    /\ res.op = "intervals"
    /\ duration = [unit |-> "Weeks", count |-> 1]
    /\ res.ok
    /\ res.val = 1181

(***************************************************************************)
(* C12. Every caller-contract violation aborts the operation instead of    *)
(* returning a value: multisig with sigs_required Some(0) or Some(1),      *)
(* hodling with sigs_required < 3, and mutable access (witness_txes_mut,   *)
(* deref_mut) on the disabled RgbProxy variant; the same operations on     *)
(* valid inputs (sigs_required >= 2 or None, >= 3 for hodling, the active  *)
(* variant) return normally.                                               *)
(***************************************************************************)
ContractViolated ==
    \/ res.op = "multisig" /\ res.args.sigs_required \in {Some(0), Some(1)}
    \/ res.op = "hodling" /\ res.args.sigs_required < 3
    \/ res.op \in {"deref_mut", "witness_txes_mut"} /\ proxy.variant = "None"

C12_AbortsExactlyOnViolation ==
    res.op \in {"multisig", "hodling", "deref_mut", "witness_txes_mut"} =>
        (res.ok <=> ~ContractViolated)

\* A valid hodling call made on 29 February, which aborts.
C12_Witness ==
    /\ res.op = "hodling"
    /\ res.args.sigs_required = 3
    /\ now.month = 2 /\ now.day = 29
    /\ ~res.ok
    /\ res.panic = "called Option::unwrap() on a None value"

(***************************************************************************)
(* C12, as far as it holds: a violated caller contract always aborts, with *)
(* the message of that contract.                                           *)
(***************************************************************************)
C12_ViolationAborts ==
    ContractViolated =>
        /\ ~res.ok
        /\ res.panic \in {"WalletTemplate::multisig must expect > 1 signature",
                          "WalletTemplate::hodling must require at least 3 signers",
                          "writing RGB stock in non-RGB wallet",
                          "writing RGB witntess index in non-RGB wallet"}

(***************************************************************************)
(* C15. WalletTemplate::multisig builds this branch schedule from          *)
(* sigs_required: None gives one unconditional branch at priority 0;       *)
(* Some(2) gives priority 1 requiring all signers with no timelock and     *)
(* priority 2 allowing any one signer after 5 years; Some(3) gives         *)
(* priority 1 requiring at least 2 with no timelock and priority 2 any one *)
(* signer after 5 years; Some(n) with n > 3 gives priority 1 requiring at  *)
(* least n-1 with no timelock, priority 2 requiring at least ceil(n/2)     *)
(* after 3 years and priority 3 any one signer after 5 years.  In every    *)
(* schedule the priority tags are distinct and the signature threshold     *)
(* never increases from one priority to the next.                          *)
(***************************************************************************)
YearsAfter(t, n) == [t EXCEPT !.year = @ + n]

Branch(priority, kind, n, date) ==
    [priority |-> priority,
     cond |-> [sigs |-> [kind |-> kind, n |-> n],
               timelock |-> IF date = None
                            THEN [kind |-> "Anytime", date |-> None]
                            ELSE [kind |-> "AfterDate", date |-> date]]]

MultisigSchedule(t, sigs_required) ==
    IF sigs_required = None
    THEN {Branch(0, "All", 0, None)}
    ELSE LET n == sigs_required[1]
         IN  IF n = 2
             THEN {Branch(1, "All", 0, None), Branch(2, "Any", 0, Some(YearsAfter(t, 5)))}
             ELSE IF n = 3
             THEN {Branch(1, "AtLeast", 2, None), Branch(2, "Any", 0, Some(YearsAfter(t, 5)))}
             ELSE {Branch(1, "AtLeast", n - 1, None),
                   Branch(2, "AtLeast", (n + 1) \div 2, Some(YearsAfter(t, 3))),
                   Branch(3, "Any", 0, Some(YearsAfter(t, 5)))}

\* The signatures a branch asks for, "all" being all of the signers the
\* template asks for at least.
Threshold(branch, template) ==
    CASE branch.cond.sigs.kind = "All" -> template.min_signer_count
      [] branch.cond.sigs.kind = "AtLeast" -> branch.cond.sigs.n
      [] branch.cond.sigs.kind = "Any" -> 1

WellOrdered(template) ==
    \A x, y \in template.conditions :
        /\ x.priority = y.priority => x = y
        /\ x.priority < y.priority => Threshold(x, template) >= Threshold(y, template)

MultisigValid == res.op = "multisig" /\ res.args.sigs_required \notin {Some(0), Some(1)}

C15_MultisigSchedule ==
    MultisigValid =>
        /\ res.ok
        /\ res.val.conditions = MultisigSchedule(now, res.args.sigs_required)
        /\ WellOrdered(res.val)

\* A valid multisig call made on 29 February, which builds no schedule.
C15_Witness ==
    /\ MultisigValid
    /\ res.args.sigs_required = Some(4)
    /\ now.month = 2 /\ now.day = 29
    /\ ~res.ok

(***************************************************************************)
(* C15, as far as it holds: every template that multisig returns has the   *)
(* schedule above.                                                         *)
(***************************************************************************)
C15_ScheduleWhenReturned ==
    (MultisigValid /\ res.ok) =>
        /\ res.val.conditions = MultisigSchedule(now, res.args.sigs_required)
        /\ WellOrdered(res.val)

(***************************************************************************)
(* C16. WalletTemplate::hodling with sigs_required >= 3 returns a template *)
(* with exactly two branches and no priority-0 branch: priority 1 requires *)
(* all signers with no timelock, priority 2 requires any one signer and is *)
(* gated at exactly the construction timestamp plus 5 years;               *)
(* min_signer_count is sigs_required.                                      *)
(***************************************************************************)
HodlingValid == res.op = "hodling" /\ res.args.sigs_required >= 3

HodlingTemplate ==
    /\ res.val.conditions =
          {Branch(1, "All", 0, None), Branch(2, "Any", 0, Some(YearsAfter(now, 5)))}
    /\ Cardinality(res.val.conditions) = 2
    /\ \A x \in res.val.conditions : x.priority # 0
    /\ res.val.min_signer_count = res.args.sigs_required

C16_HodlingTemplate == HodlingValid => (res.ok /\ HodlingTemplate)

\* A valid hodling call made on 29 February, which returns no template.
C16_Witness ==
    /\ HodlingValid
    /\ res.args.sigs_required = MaxSigs
    /\ now.month = 2 /\ now.day = 29
    /\ ~res.ok

(***************************************************************************)
(* C16, as far as it holds: every template that hodling returns is the one *)
(* above.                                                                  *)
(***************************************************************************)
C16_TemplateWhenReturned == (HodlingValid /\ res.ok) => HodlingTemplate

(***************************************************************************)
(* C17. Every template constructor (singlesig, taproot_singlesig_rgb,      *)
(* hodling, multisig) chooses default_derivation as a function of the      *)
(* template's descriptor class alone, through a fixed scheme table: no     *)
(* constructor assigns a scheme that ignores the descriptor class.  The    *)
(* table has a single-signature and a multi-signature scheme per class.    *)
(***************************************************************************)
SchemeTable(multi, class) ==
    CASE class = "PreSegwit" -> IF multi THEN "multisig_ordered_sh" ELSE "singlesig_pkh"
      [] class = "SegwitV0" -> IF multi THEN "multisig_segwit0" ELSE "singlesig_segwit0"
      [] class = "NestedV0" -> IF multi THEN "multisig_nested0" ELSE "singlesig_nested0"
      [] class = "TaprootC0" -> IF multi THEN "multisig_descriptor" ELSE "singlesig_taproot"

Constructors == {"singlesig", "taproot_singlesig_rgb", "hodling", "multisig"}

C17_DerivationFromClassTable ==
    (res.op \in Constructors /\ res.ok) =>
        res.val.default_derivation =
            [variant |-> "Bip43",
             bip43 |-> SchemeTable(res.op \in {"hodling", "multisig"},
                                   res.val.descriptor_class)]

\* A hodling template of a pre-segwit class with the taproot scheme.
C17_Witness ==
    /\ res.op = "hodling"
    /\ res.ok
    /\ res.val.descriptor_class = "PreSegwit"
    /\ res.val.default_derivation.bip43 = "multisig_descriptor"

(***************************************************************************)
(* C17, as far as it holds: singlesig, taproot_singlesig_rgb and multisig  *)
(* take the scheme of the descriptor class from the table.                 *)
(***************************************************************************)
C17_TableExceptHodling ==
    (res.op \in Constructors \ {"hodling"} /\ res.ok) =>
        res.val.default_derivation =
            [variant |-> "Bip43",
             bip43 |-> SchemeTable(res.op = "multisig", res.val.descriptor_class)]

(***************************************************************************)
(* C19. Signer::with_xpub reconstructs the origin from the xpub depth:     *)
(* depth 0 gives an empty origin, no account and the key's own fingerprint *)
(* as master; depth 1 gives the single child number as origin and the      *)
(* parent fingerprint as master; a deeper key at the scheme's account      *)
(* depth with a hardened child number gives a zero master fingerprint and  *)
(* an origin that holds the network coin type and the child number at      *)
(* their scheme-declared slots when coin-type depth and account depth are  *)
(* adjacent, and only the child number when they are not; every other      *)
(* depth gives the single child number and a zero master fingerprint.      *)
(* Hence is_master_known() is false for every signer built from a bare     *)
(* xpub of depth >= 2.                                                     *)
(***************************************************************************)
AtAccountDepth ==
    /\ xpub.depth >= 2
    /\ schema.account_depth = Some(xpub.depth)
    /\ xpub.child_number.hardened

Adjacent ==
    /\ schema.coin_type_depth # None
    /\ schema.coin_type_depth[1] - xpub.depth \in {-1, 1}

\* The slot of a depth in an origin of two adjacent depths.
Slot(depth) == IF depth < schema.coin_type_depth[1] \/ depth < xpub.depth THEN 1 ELSE 2

OriginAsClaimed(signer) ==
    /\ xpub.depth = 0 =>
          /\ signer.origin = <<>>
          /\ signer.account = None
          /\ signer.master_fp = ExtendedPubKey_fingerprint(xpub)
    /\ xpub.depth = 1 =>
          /\ signer.origin = <<xpub.child_number>>
          /\ signer.master_fp = xpub.parent_fingerprint
    /\ (AtAccountDepth /\ Adjacent) =>
          /\ signer.master_fp = 0
          /\ Len(signer.origin) = 2
          /\ signer.origin[Slot(schema.coin_type_depth[1])] =
                 [hardened |-> TRUE, index |-> IF network = "Mainnet" THEN 0 ELSE 1]
          /\ signer.origin[Slot(xpub.depth)] = xpub.child_number
    /\ (AtAccountDepth /\ ~Adjacent) =>
          /\ signer.master_fp = 0
          /\ signer.origin = <<xpub.child_number>>
    /\ (xpub.depth >= 2 /\ ~AtAccountDepth) =>
          /\ signer.master_fp = 0
          /\ signer.origin = <<xpub.child_number>>

C19_OriginFromDepth ==
    /\ res.op = "with_xpub" => (res.ok /\ OriginAsClaimed(res.val))
    /\ (res.op = "is_master_known" /\ xpub.depth >= 2) => (res.ok /\ ~res.val)

C19_Witness ==
    /\ res.op = "is_master_known"
    /\ ~res.val
    /\ xpub.depth = 3
    /\ schema = [account_depth |-> Some(3), coin_type_depth |-> Some(2)]
    /\ xpub.child_number = [hardened |-> TRUE, index |-> 1]
    /\ network = "Testnet"
    /\ res.signer.origin = <<[hardened |-> TRUE, index |-> 1], [hardened |-> TRUE, index |-> 1]>>
    /\ xpub.parent_fingerprint # 0

(***************************************************************************)
(* What enumerate owes after the first n discovered devices: the registry  *)
(* holds, for every fingerprint that a successful device reported, the     *)
(* last such device, and the log holds the failed devices in their order.  *)
(***************************************************************************)
OkAt(j) == discovered.list[j].outcome = "ok"

FailedAt(j) == ~OkAt(j)

Positions(n) == [j \in 1..n |-> j]

FailedPositions(n) == SelectSeq(Positions(n), FailedAt)

Largest(S) == CHOOSE x \in S : \A y \in S : y <= x

RegistryOf(n) ==
    [fp \in {discovered.list[j].fingerprint : j \in {k \in 1..n : OkAt(k)}} |->
        Largest({j \in 1..n : OkAt(j) /\ discovered.list[j].fingerprint = fp})]

DevicesOf(registry) == [fp \in DOMAIN registry |-> registry[fp].device]

LogDevices(errors) == [k \in 1..Len(errors) |-> errors[k].device]

LogFits(errors) ==
    \A k \in 1..Len(errors) :
        LET device == discovered.list[errors[k].device]
        IN  /\ errors[k].variant =
                   (IF device.outcome = "unsupported"
                    THEN "DerivationNotSupported" ELSE "NoDevices")
            /\ errors[k].hwi = device.outcome

(***************************************************************************)
(* C18 as stated. HardwareList::enumerate always returns the registry of   *)
(* the devices that succeeded together with the full failure log: neither  *)
(* the failure of one device nor the failure of the discovery itself is    *)
(* propagated as a failure of the whole operation.                         *)
(***************************************************************************)
C18_EnumerateNeverFails ==
    res.op = "enumerate" =>
        /\ res.ok
        /\ DevicesOf(res.val.devices) = RegistryOf(Len(discovered.list))
        /\ discovered.ok => LogDevices(res.val.log) = FailedPositions(Len(discovered.list))
        /\ ~discovered.ok => Len(res.val.log) = 1

(***************************************************************************)
(* C18, amended. When the discovery succeeds, enumerate returns the        *)
(* registry of the devices that succeeded together with the full failure   *)
(* log, and no failure of one device (locked, communication error,         *)
(* unsupported derivation) fails the whole operation.  When the discovery  *)
(* itself fails, the whole operation fails with Error::NoDevices and       *)
(* returns neither a registry nor a log.                                   *)
(***************************************************************************)
C18_OnlyDiscoveryFailureIsReturned ==
    res.op = "enumerate" =>
        /\ res.ok <=> discovered.ok
        /\ res.ok =>
              /\ DevicesOf(res.val.devices) = RegistryOf(Len(discovered.list))
              /\ LogDevices(res.val.log) = FailedPositions(Len(discovered.list))
              /\ LogFits(res.val.log)
        /\ ~res.ok => res.err.variant = "NoDevices"

C18_Witness ==
    /\ res.op = "enumerate"
    /\ res.ok
    /\ Len(discovered.list) = 3
    /\ discovered.list[1].outcome = "locked"
    /\ discovered.list[2].outcome = "ok"
    /\ discovered.list[3].outcome = "unsupported"
    /\ Len(res.val.log) = 2
    /\ DOMAIN res.val.devices = {discovered.list[2].fingerprint}

(***************************************************************************)
(* C20. HardwareList::enumerate processes the discovered devices one at a  *)
(* time in discovery order, and each device produces exactly one outcome:  *)
(* one insertion into the registry under its master fingerprint or one     *)
(* entry appended to the error log.  So, after every device, the log       *)
(* length plus the number of successful probes is the number of devices    *)
(* processed, the log entries are in device order, a failure leaves the    *)
(* registry as it was, and of two devices that report the same fingerprint *)
(* the later successful one is the one registered.                         *)
(***************************************************************************)
C20_OneOutcomePerDevice ==
    pc >= 1 =>
        /\ pc - 1 <= Len(discovered.list)
        /\ Len(log) + probes = pc - 1
        /\ probes = Cardinality({j \in 1..(pc - 1) : OkAt(j)})
        /\ LogDevices(log) = FailedPositions(pc - 1)
        /\ DevicesOf(devices) = RegistryOf(pc - 1)

C20_Witness ==
    /\ res.op = "enumerate"
    /\ pc = 4
    /\ discovered.list[1] = [fingerprint |-> 1, outcome |-> "ok"]
    /\ discovered.list[2].outcome = "no_client"
    /\ discovered.list[3] = [fingerprint |-> 1, outcome |-> "ok"]
    /\ devices[1].device = 3
    /\ probes = 2
    /\ Len(log) = 1

(***************************************************************************)
(* C21. For every confirmed height h, any u32 >= 1, the estimate           *)
(* Blockchain(h).date_time_est() is the instant whose unix time is         *)
(* 1651158666 + (h - 733961) * 600, with no overflow, saturation or abort. *)
(* 1651158666 = 600 * 2751931 + 66, so that time is 600 * (h + 2017970)    *)
(* + 66: it is compared by quotient and remainder, and a quotient beyond   *)
(* the largest i32 is the quotient of no unix time the estimate can hold.  *)
(***************************************************************************)
ExactEstimate(unix, h) ==
    /\ unix % 600 = 66
    /\ h.hi = 0
    /\ h.lo <= I32Max - 2017970
    /\ unix \div 600 = h.lo + 2017970

C21_SixHundredSecondsPerBlock ==
    (res.op = "date_time_est" /\ st.tag = "Blockchain") =>
        /\ res.ok
        /\ ExactEstimate(res.val.unix, st.height)

\* The first height whose estimate is cut at the largest i32.
C21_Witness ==
    /\ res.op = "date_time_est"
    /\ st = [tag |-> "Blockchain", height |-> U32(0, 1561170)]
    /\ res.ok
    /\ res.val.unix = I32Max

(***************************************************************************)
(* C21, as far as it holds: the estimate is exact for the heights         *)
(* 1..1561169, and for no other height.                                    *)
(***************************************************************************)
C21_ExactBelowSaturation ==
    (res.op = "date_time_est" /\ st.tag = "Blockchain") =>
        /\ (st.height.hi = 0 /\ st.height.lo <= 1561169) =>
              (res.ok /\ ExactEstimate(res.val.unix, st.height))
        /\ ~(st.height.hi = 0 /\ st.height.lo <= 1561169) =>
              ~(res.ok /\ ExactEstimate(res.val.unix, st.height))

(***************************************************************************)
(* C22. WalletTemplate::hodling with sigs_required >= 3 and                *)
(* WalletTemplate::multisig with sigs_required >= 2 return a template for  *)
(* every construction date and time, 29 February of a leap year included:  *)
(* computing the dates 3 and 5 calendar years later never aborts.          *)
(***************************************************************************)
DatedConstruction ==
    \/ res.op = "hodling" /\ res.args.sigs_required >= 3
    \/ /\ res.op = "multisig"
       /\ res.args.sigs_required # None
       /\ res.args.sigs_required[1] >= 2

C22_ReturnsOnEveryDate == DatedConstruction => res.ok

\* A two-signer multisig template asked for on 29 February 2024.
C22_Witness ==
    /\ res.op = "multisig"
    /\ res.args.sigs_required = Some(2)
    /\ now.year = 2024 /\ now.month = 2 /\ now.day = 29
    /\ ~res.ok
    /\ res.panic = "called Option::unwrap() on a None value"

(***************************************************************************)
(* C22, as far as it holds: these constructors abort on 29 February and    *)
(* on no other date.                                                       *)
(***************************************************************************)
C22_AbortsOnLeapDayOnly ==
    DatedConstruction => (res.ok <=> ~(now.month = 2 /\ now.day = 29))

(***************************************************************************)
(* C23. For both RgbProxy variants, the byte count that strict_encode      *)
(* returns is the number of bytes it wrote to the output, the 2-byte       *)
(* version tag included.                                                   *)
(***************************************************************************)
C23_CountIsBytesWritten ==
    res.op = "strict_encode" => (res.ok /\ res.val = Len(buf.bytes))

\* An active proxy whose count misses the two bytes of the tag.
C23_Witness ==
    /\ res.op = "strict_encode"
    /\ proxy.variant = "RgbV0_10"
    /\ proxy.stock # <<>>
    /\ buf.by = "strict_encode"
    /\ res.val = Len(buf.bytes) - 2

(***************************************************************************)
(* C23, as far as it holds: the count is right for the disabled variant    *)
(* and two bytes short, the version tag, for the active one.               *)
(***************************************************************************)
C23_CountMissesTheActiveTag ==
    res.op = "strict_encode" =>
        /\ res.ok
        /\ res.val = Len(buf.bytes) - (IF proxy.variant = "None" THEN 0 ELSE 2)

=============================================================================
